---- MODULE Spec2Model ----
(***************************************************************************)
(* A model of src/ballistica/base/graphics/texture/ktx.cc: the KTX         *)
(* container reader (LoadKTX), the ETC1/ETC2 block decoders and the image  *)
(* assembler (KTXUnpackETC).                                               *)
(*                                                                         *)
(* Four specifications share the module, one per component:                *)
(*   SpecLoad   - LoadKTX, one action per code segment between I/O calls   *)
(*   SpecBlock  - decompressBlockETC2c on one 64-bit block                 *)
(*   SpecAlpha  - the punch-through alpha decoders on one 64-bit block     *)
(*   SpecUnpack - KTXUnpackETC on a whole image                            *)
(* Each leaves the other components' variables unchanged.                  *)
(***************************************************************************)
EXTENDS Integers, Sequences, FiniteSets, TLC

VARIABLES
    \* ---- LoadKTX ----
    pc,               \* position in LoadKTX
    f,                \* the FILE* handle: "none", "open", "closed"
    header,           \* KTX_header_t as read by fread
    texture_quality,  \* parameter
    min_quality,      \* parameter
    internal_format,  \* local TextureFormat
    size,             \* local uint32_t, as <<high half, low half>>
    mip_x,            \* local int x
    mip_y,            \* local int y
    level,            \* loop counter
    base_level,       \* *base_level
    buffers,          \* caller's array
    widths,           \* caller's array
    heights,          \* caller's array
    formats,          \* caller's array
    sizes,            \* caller's array
    io,               \* the file and allocator calls made so far, in order
    fpos,             \* the file position indicator of f, as <<high, low half>>
    ftrace            \* history: the reads and seeks of the mip loop, in order,
                      \* each with the position it started at

loadVars == <<pc, f, header, texture_quality, min_quality, internal_format, size,
              mip_x, mip_y, level, base_level, buffers, widths, heights, formats,
              sizes, io, fpos, ftrace>>

VARIABLES
    \* ---- one call of decompressBlockETC2c ----
    block_part1,      \* the high 32-bit word (bits 63..32 of the block)
    block_part2,      \* the low 32-bit word (bits 31..0)
    img,              \* the destination buffer, one entry per byte
    startx,           \* the tile's origin
    starty,
    channels,         \* bytes per texel of img
    calls,            \* the converters and decoders the dispatcher called
    alpha,            \* the separate alpha buffer of the punch-through decoders
    stores,           \* the texels decompressBlockDiffFlipC stored, in order
    entry             \* the function the caller calls

blockVars == <<block_part1, block_part2, img, startx, starty, channels, calls,
               alpha, stores, entry>>

VARIABLES
    \* ---- KTXUnpackETC ----
    upc,                    \* position in KTXUnpackETC
    srcETC,                 \* parameter: the compressed bytes
    srcFormat,              \* parameter
    activeWidth,            \* parameter
    activeHeight,           \* parameter
    dstImage,               \* *dstImage: "prior", "null" or the number of a heap block
    out_format,             \* *format
    out_type,               \* *type
    alphaFormat,            \* local enum
    dstChannels,            \* local int
    dstChannelBytes,        \* local int
    padded_width,           \* local unsigned int width
    padded_height,          \* local unsigned int height
    heap,                   \* the blocks malloc returned to this call, in order
    alphaTableInitialized,  \* global
    alphaTable,             \* global int alphaTable[256][8]
    setupHistory,           \* history: the invocations of setupAlphaTable that
                            \* stored into alphaTable, and what the last one did
    decoders,               \* history: the block decoders this call has invoked
    srcReads                \* history: the reads of this call from src, in
                            \* order, each <<what, x, y, offset, length>>

unpackVars == <<upc, srcETC, srcFormat, activeWidth, activeHeight, dstImage,
                out_format, out_type, alphaFormat, dstChannels, dstChannelBytes,
                padded_width, padded_height, heap, alphaTableInitialized,
                alphaTable, setupHistory, decoders, srcReads>>

\* what the LoadKTX actions leave alone
nonLoadVars == <<blockVars, unpackVars>>

----------------------------------------------------------------------------
(* Bounds of the model *)

\* the largest numberOfMipmapLevels a header of the model declares
MaxLevels == 3

\* the largest activeWidth and activeHeight passed to KTXUnpackETC
MaxActiveWidth == 6
MaxActiveHeight == 5

\* the number of different compressed inputs per image size
NumSources == 2

----------------------------------------------------------------------------
(* Program constants *)

GL_COMPRESSED_RGB8_ETC2 == 37492
GL_COMPRESSED_RGBA8_ETC2_EAC == 37496
GL_ETC1_RGB8_OES == 36196
KTX_ENDIAN_REF == 67305985
KTX_ENDIAN_REF_REV == 16909060

\* KTX_IDENTIFIER_REF, the 12 reference bytes
KTX_IDENTIFIER_REF == <<171, 75, 84, 88, 32, 49, 49, 187, 13, 10, 26, 10>>

----------------------------------------------------------------------------
(* 32-bit unsigned arithmetic.  A uint32_t is kept as two 16-bit halves,   *)
(* <<hi, lo>>, so that values up to 2^32 - 1 and the wrap of size + 3 are  *)
(* representable.                                                          *)

Half == 2^16

U32(hi, lo) == <<hi, lo>>

\* a + k modulo 2^32, for a small k >= 0
U32AddSmall(a, k) ==
    LET lo == a[2] + k
    IN  <<(a[1] + (lo \div Half)) % Half, lo % Half>>

\* a & ~(uint32_t)3
U32AndNot3(a) == <<a[1], a[2] - (a[2] % 4)>>

\* sizeRounded = (size + 3) & ~(uint32_t)3
SizeRounded(s) == U32AndNot3(U32AddSmall(s, 3))

U32IsZero(a) == a[1] = 0 /\ a[2] = 0

\* the value modulo 4 of a uint32_t
U32Mod4(a) == a[2] % 4

----------------------------------------------------------------------------
(* LoadKTX: the inputs of the model *)

TextureQualities == {"kLow", "kMedium", "kHigh"}
MinQualities == 0 .. 2

BadIdentifier == <<0, 0, 0, 0, 0, 0, 0, 0, 0, 0, 0, 0>>

\* glInternalFormat values: the three supported ones, the punch-through
\* format 0x9276 and 0
InternalFormats ==
    {GL_COMPRESSED_RGB8_ETC2, GL_COMPRESSED_RGBA8_ETC2_EAC, GL_ETC1_RGB8_OES,
     37494, 0}

\* <<pixelWidth, pixelHeight>>
PixelDims == {<<0, 5>>, <<6, 0>>, <<6, 5>>, <<200, 5>>, <<200, 200>>}

\* The headers a file may hold.  glType, glTypeSize, glFormat and
\* glBaseInternalFormat are never read by LoadKTX and are left out.
Headers ==
    { [identifier |-> id, endianness |-> en, glInternalFormat |-> fmt,
       pixelWidth |-> wh[1], pixelHeight |-> wh[2], pixelDepth |-> dp,
       numberOfArrayElements |-> ar, numberOfFaces |-> fa,
       numberOfMipmapLevels |-> n, bytesOfKeyValueData |-> kv] :
        id \in {KTX_IDENTIFIER_REF, BadIdentifier},
        en \in {KTX_ENDIAN_REF, KTX_ENDIAN_REF_REV},
        fmt \in InternalFormats, wh \in PixelDims, dp \in {0, 1},
        ar \in {0, 1}, fa \in {1, 6}, n \in 0 .. MaxLevels, kv \in {0, 8} }

\* The declared mip-level byte lengths a file may hold: 0, 8 and 2^32 - 4
\* are multiples of 4; 6, 2^32 - 3, 2^32 - 2 and 2^32 - 1 are not, and for
\* the last three size + 3 wraps around.
LevelSizes ==
    {U32(0, 0), U32(0, 8), U32(65535, 65532),
     U32(0, 6), U32(65535, 65533), U32(65535, 65534), U32(65535, 65535)}

Levels == 0 .. (MaxLevels - 1)

\* What the caller's arrays and *base_level hold before the call.
PriorBuffer == "prior"
PriorInt == -1
PriorFormat == "prior"
PriorSize == <<-1, -1>>

NoHeader == [identifier |-> <<>>]

----------------------------------------------------------------------------
(* LoadKTX: pure parts *)

\* HeaderValid with the numberOfFaces check left out
HeaderValid_NoFaces(h) ==
    /\ h.endianness = KTX_ENDIAN_REF
    /\ h.numberOfArrayElements = 0
    /\ h.bytesOfKeyValueData = 0
    /\ h.pixelWidth > 0 /\ h.pixelHeight > 0 /\ h.pixelDepth = 0

\* lines 70-75: the five BA_PRECONDITIONs on the header
HeaderValid(h) ==
    /\ h.endianness = KTX_ENDIAN_REF
    /\ h.numberOfArrayElements = 0
    /\ h.numberOfFaces = 1
    /\ h.bytesOfKeyValueData = 0
    /\ h.pixelWidth > 0 /\ h.pixelHeight > 0 /\ h.pixelDepth = 0

\* ClassifyFormat taking the punch-through format 0x9276 for RGBA
ClassifyFormat_Punchthrough(fmt) ==
    IF fmt = GL_COMPRESSED_RGB8_ETC2 THEN "kETC2_RGB"
    ELSE IF fmt = GL_COMPRESSED_RGBA8_ETC2_EAC THEN "kETC2_RGBA"
    ELSE IF fmt = 37494 THEN "kETC2_RGBA"
    ELSE IF fmt = GL_ETC1_RGB8_OES THEN "kETC1"
    ELSE "throw"

\* lines 79-90: the format classification; "throw" for the else branch
ClassifyFormat(fmt) ==
    IF fmt = GL_COMPRESSED_RGB8_ETC2 THEN "kETC2_RGB"
    ELSE IF fmt = GL_COMPRESSED_RGBA8_ETC2_EAC THEN "kETC2_RGBA"
    ELSE IF fmt = GL_COMPRESSED_RGBA8_ETC2_EAC THEN "kETC2_RGBA"
    ELSE IF fmt = GL_ETC1_RGB8_OES THEN "kETC1"
    ELSE "throw"

\* ComputeBaseLevel without the comparisons against numberOfMipmapLevels
ComputeBaseLevel_NoLevelCheck(q, mq, h) ==
    LET b0 == 0
        b1 == IF (q = "kLow" \/ q = "kMedium") /\ mq < 2
              THEN b0 + 1 ELSE b0
        b2 == IF /\ q = "kLow" /\ mq < 1
                 /\ h.pixelWidth > 128 /\ h.pixelHeight > 128
              THEN b1 + 1 ELSE b1
    IN  b2

\* ComputeBaseLevel with the second drop taken for medium quality too
ComputeBaseLevel_MediumTwice(q, mq, h) ==
    LET b0 == 0
        b1 == IF /\ (q = "kLow" \/ q = "kMedium")
                 /\ mq < 2
                 /\ h.numberOfMipmapLevels >= b0 + 1
              THEN b0 + 1 ELSE b0
        b2 == IF /\ (q = "kLow" \/ q = "kMedium") /\ mq < 1
                 /\ h.pixelWidth > 128 /\ h.pixelHeight > 128
                 /\ h.numberOfMipmapLevels >= b1 + 1
              THEN b1 + 1 ELSE b1
    IN  b2

\* lines 98-115: the base level
ComputeBaseLevel(q, mq, h) ==
    LET b0 == 0
        b1 == IF /\ (q = "kLow" \/ q = "kMedium")
                 /\ mq < 2
                 /\ h.numberOfMipmapLevels >= b0 + 1
              THEN b0 + 1 ELSE b0
        b2 == IF /\ q = "kLow" /\ mq < 1
                 /\ h.pixelWidth > 128 /\ h.pixelHeight > 128
                 /\ h.numberOfMipmapLevels >= b1 + 1
              THEN b1 + 1 ELSE b1
    IN  b2

\* SizeAligned rounding to a multiple of 2 instead of 4
SizeAligned_TwoByte(s) ==
    LET t == U32AddSmall(s, 1)
    IN  s = <<t[1], t[2] - (t[2] % 2)>>

\* lines 120-122: size == sizeRounded
SizeAligned(s) == s = SizeRounded(s)

\* the halving without the + 1: x >> 1
HalveUp_Floor(v) == v \div 2

\* lines 137-138: x = (x + 1) >> 1
HalveUp(v) == (v + 1) \div 2

\* A file position is kept as <<high, low>> with low below 2^16 and high
\* unbounded, so that the sum of several 32-bit lengths is representable.
\* The position of a stream that is not open, or after a failed fread.
NoPosition == <<-1, -1>>
StartPosition == <<0, 0>>

\* the position n bytes after pos, n given as a uint32_t
Advance(pos, n) ==
    <<pos[1] + n[1] + ((pos[2] + n[2]) \div Half), (pos[2] + n[2]) % Half>>

\* a seek that leaves the position where it was
SeekCur_Stay(pos, n) == pos

\* fseek(f, n, SEEK_CUR) returning 0 (line 133)
SeekCur(pos, n) == Advance(pos, n)

\* the entry of ftrace for a call op on level l, begun at pos, for the
\* declared length n
FileOp(op, l, pos, n) == [op |-> op, level |-> l, at |-> pos, size |-> n]

----------------------------------------------------------------------------
(* LoadKTX: the state machine *)

Throw == pc' = "thrown"

LoadInit ==
    /\ pc = "idle"
    /\ f = "none"
    /\ header = NoHeader
    /\ texture_quality = "none"
    /\ min_quality = 0
    /\ internal_format = "undef"
    /\ size = U32(0, 0)
    /\ mip_x = 0
    /\ mip_y = 0
    /\ level = 0
    /\ base_level = PriorInt
    /\ buffers = [l \in Levels |-> PriorBuffer]
    /\ widths = [l \in Levels |-> PriorInt]
    /\ heights = [l \in Levels |-> PriorInt]
    /\ formats = [l \in Levels |-> PriorFormat]
    /\ sizes = [l \in Levels |-> PriorSize]
    /\ io = <<>>
    /\ fpos = NoPosition
    /\ ftrace = <<>>

\* lines 58-62: the call and FOpen
LoadKTX_FOpen ==
    /\ UNCHANGED nonLoadVars
    /\ pc = "idle"
    /\ \E q \in TextureQualities, mq \in MinQualities, ok \in BOOLEAN :
        /\ texture_quality' = q
        /\ min_quality' = mq
        /\ f' = IF ok THEN "open" ELSE "none"
        /\ pc' = IF ok THEN "read_header" ELSE "thrown"
    /\ io' = Append(io, <<"fopen", -1>>)
    /\ fpos' = IF f' = "open" THEN StartPosition ELSE NoPosition
    /\ UNCHANGED <<header, internal_format, size, mip_x, mip_y, level,
                   base_level, buffers, widths, heights, formats, sizes, ftrace>>

\* lines 64-66: fread of the header; a file shorter than 64 bytes fails
LoadKTX_ReadHeader ==
    /\ UNCHANGED nonLoadVars
    /\ pc = "read_header"
    /\ io' = Append(io, <<"fread_header", -1>>)
    /\ \/ /\ \E h \in Headers : header' = h /\ pc' = "validate"
          /\ fpos' = Advance(fpos, U32(0, 64))
       \/ header' = header /\ Throw /\ fpos' = NoPosition
    /\ UNCHANGED <<f, texture_quality, min_quality, internal_format, size,
                   mip_x, mip_y, level, base_level, buffers, widths, heights,
                   formats, sizes, ftrace>>

\* lines 68-75
LoadKTX_Validate ==
    /\ UNCHANGED nonLoadVars
    /\ pc = "validate"
    /\ IF HeaderValid(header) THEN pc' = "classify" ELSE Throw
    /\ UNCHANGED <<f, header, texture_quality, min_quality, internal_format,
                   size, mip_x, mip_y, level, base_level, buffers, widths,
                   heights, formats, sizes, io, fpos, ftrace>>

\* the classification with the store of line 96, (*base_level) = 0, ahead of it
LoadKTX_Classify_BaseLevelFirst ==
    /\ UNCHANGED nonLoadVars
    /\ pc = "classify"
    /\ base_level' = 0
    /\ LET c == ClassifyFormat(header.glInternalFormat)
       IN  IF c = "throw"
           THEN Throw /\ internal_format' = internal_format
           ELSE pc' = "base_level" /\ internal_format' = c
    /\ UNCHANGED <<f, header, texture_quality, min_quality, size, mip_x,
                   mip_y, level, buffers, widths, heights, formats, sizes, io,
                   fpos, ftrace>>

\* lines 77-90
LoadKTX_Classify ==
    /\ UNCHANGED nonLoadVars
    /\ pc = "classify"
    /\ LET c == ClassifyFormat(header.glInternalFormat)
       IN  IF c = "throw"
           THEN Throw /\ internal_format' = internal_format
           ELSE pc' = "base_level" /\ internal_format' = c
    /\ UNCHANGED <<f, header, texture_quality, min_quality, size, mip_x,
                   mip_y, level, base_level, buffers, widths, heights,
                   formats, sizes, io, fpos, ftrace>>

\* lines 92-115
LoadKTX_BaseLevel ==
    /\ UNCHANGED nonLoadVars
    /\ pc = "base_level"
    /\ size' = U32(0, 0)
    /\ mip_x' = header.pixelWidth
    /\ mip_y' = header.pixelHeight
    /\ base_level' = ComputeBaseLevel(texture_quality, min_quality, header)
    /\ level' = 0
    /\ pc' = "loop"
    /\ UNCHANGED <<f, header, texture_quality, min_quality, internal_format,
                   buffers, widths, heights, formats, sizes, io, fpos, ftrace>>

\* lines 117-122: the loop test, the fread of the size prefix and the
\* alignment check
LoadKTX_ReadSize ==
    /\ UNCHANGED nonLoadVars
    /\ pc = "loop"
    /\ level < header.numberOfMipmapLevels
    /\ io' = Append(io, <<"fread_size", level>>)
    /\ \/ \E s \in LevelSizes :
            /\ size' = s
            /\ fpos' = Advance(fpos, U32(0, 4))
            /\ ftrace' = Append(ftrace, FileOp("fread_size", level, fpos, s))
            /\ IF SizeAligned(s) THEN pc' = "level_body" ELSE Throw
       \/ /\ size' = size /\ Throw
          /\ fpos' = NoPosition
          /\ ftrace' = Append(ftrace, FileOp("fread_size", level, fpos, size))
    /\ UNCHANGED <<f, header, texture_quality, min_quality, internal_format,
                   mip_x, mip_y, level, base_level, buffers, widths, heights,
                   formats, sizes>>

\* lines 124-131 and 137-138: a level at or above the base level
LoadKTX_Materialize ==
    /\ UNCHANGED nonLoadVars
    /\ pc = "level_body"
    /\ base_level <= level
    /\ sizes' = [sizes EXCEPT ![level] = size]
    /\ \E mallocOk \in BOOLEAN, readOk \in BOOLEAN :
        IF ~mallocOk
        THEN /\ buffers' = [buffers EXCEPT ![level] = "null"]
             /\ io' = Append(io, <<"malloc", level>>)
             /\ Throw
             /\ UNCHANGED <<widths, heights, formats, mip_x, mip_y, level, fpos,
                            ftrace>>
        ELSE /\ buffers' = [buffers EXCEPT ![level] = "alloc"]
             /\ widths' = [widths EXCEPT ![level] = mip_x]
             /\ heights' = [heights EXCEPT ![level] = mip_y]
             /\ formats' = [formats EXCEPT ![level] = internal_format]
             /\ io' = io \o <<(<<"malloc", level>>), (<<"fread_payload", level>>)>>
             \* fread(buffers[level], size, 1, f) returns 0 when size is 0
             /\ ftrace' = Append(ftrace, FileOp("fread_payload", level, fpos, size))
             /\ IF readOk /\ ~U32IsZero(size)
                THEN /\ mip_x' = HalveUp(mip_x)
                     /\ mip_y' = HalveUp(mip_y)
                     /\ level' = level + 1
                     /\ fpos' = Advance(fpos, size)
                     /\ pc' = "loop"
                ELSE /\ Throw
                     /\ fpos' = IF U32IsZero(size) THEN fpos ELSE NoPosition
                     /\ UNCHANGED <<mip_x, mip_y, level>>
    /\ UNCHANGED <<f, header, texture_quality, min_quality, internal_format,
                   size, base_level>>

\* lines 132-138: a level below the base level
LoadKTX_Skip ==
    /\ UNCHANGED nonLoadVars
    /\ pc = "level_body"
    /\ ~(base_level <= level)
    /\ buffers' = [buffers EXCEPT ![level] = "null"]
    /\ io' = Append(io, <<"fseek", level>>)
    /\ ftrace' = Append(ftrace, FileOp("fseek", level, fpos, size))
    /\ \E seekOk \in BOOLEAN :
        IF seekOk
        THEN /\ mip_x' = HalveUp(mip_x)
             /\ mip_y' = HalveUp(mip_y)
             /\ level' = level + 1
             /\ fpos' = SeekCur(fpos, size)
             /\ pc' = "loop"
        ELSE /\ Throw
             /\ UNCHANGED <<mip_x, mip_y, level, fpos>>
    /\ UNCHANGED <<f, header, texture_quality, min_quality, internal_format,
                   size, base_level, widths, heights, formats, sizes>>

\* lines 117 and 140: the loop ends, fclose, return
LoadKTX_Close ==
    /\ UNCHANGED nonLoadVars
    /\ pc = "loop"
    /\ ~(level < header.numberOfMipmapLevels)
    /\ f' = "closed"
    /\ io' = Append(io, <<"fclose", -1>>)
    /\ fpos' = NoPosition
    /\ pc' = "returned"
    /\ UNCHANGED <<header, texture_quality, min_quality, internal_format, size,
                   mip_x, mip_y, level, base_level, buffers, widths, heights,
                   formats, sizes, ftrace>>

LoadNext ==
    \/ LoadKTX_FOpen
    \/ LoadKTX_ReadHeader
    \/ LoadKTX_Validate
    \/ LoadKTX_Classify
    \/ LoadKTX_BaseLevel
    \/ LoadKTX_ReadSize
    \/ LoadKTX_Materialize
    \/ LoadKTX_Skip
    \/ LoadKTX_Close


----------------------------------------------------------------------------
(* The block codec: bit fields, tables, casts *)

\* An unsigned int is kept as its two 16-bit halves, <<high, low>>.
ZeroWord == <<0, 0>>

\* the word of a value below 2^31
ToWord(n) == <<n \div 2^16, n % 2^16>>

\* the word whose bytes are b3 (bits 31..24), b2, b1 and b0 (bits 7..0)
WordOfBytes(b3, b2, b1, b0) == <<b3 * 256 + b2, b1 * 256 + b0>>

\* (w >> sh) & ((1 << n) - 1), for n <= 16
ShiftMask(w, sh, n) ==
    IF sh >= 16
    THEN (w[1] \div 2^(sh - 16)) % 2^n
    ELSE LET m == IF n + sh > 16 THEN n + sh - 16 ELSE 0
         IN  (w[1] % 2^m) * 2^(16 - sh) + ((w[2] \div 2^sh) % 2^n)

\* GETBITS(source, size, startpos)
GETBITS(source, n, startpos) == ShiftMask(source, startpos - n + 1, n)

\* GETBITSHIGH(source, size, startpos)
GETBITSHIGH(source, n, startpos) == ShiftMask(source, (startpos - 32) - n + 1, n)

\* the 16-bit half h with its bits low .. low + len - 1 replaced by v < 2^len
PutHalf(h, v, low, len) ==
    (h \div 2^(low + len)) * 2^(low + len) + v * 2^low + (h % 2^low)

\* (dest & ~(mask << sh)) | ((data << sh) & (mask << sh)), mask = (1 << n) - 1
PutField(dest, data, sh, n) ==
    LET v == ShiftMask(data, 0, n)
        nlo == IF sh >= 16 THEN 0 ELSE IF sh + n > 16 THEN 16 - sh ELSE n
        nhi == n - nlo
    IN  << IF nhi = 0 THEN dest[1]
           ELSE PutHalf(dest[1], v \div 2^nlo, IF sh >= 16 THEN sh - 16 ELSE 0, nhi),
           IF nlo = 0 THEN dest[2]
           ELSE PutHalf(dest[2], v % 2^nlo, sh, nlo) >>

\* PUTBITS(dest, data, size, startpos), data given as a word
PUTBITS(dest, data, n, startpos) == PutField(dest, data, startpos - n + 1, n)

\* PUTBITSHIGH(dest, data, size, startpos), data given as a word
PUTBITSHIGH(dest, data, n, startpos) ==
    PutField(dest, data, (startpos - 32) - n + 1, n)

\* word >> 1 of an unsigned int
ShiftRight1(w) == <<w[1] \div 2, (w[1] % 2) * 2^15 + (w[2] \div 2)>>

\* bit i of a | b, in place
OrBit(a, b, i) == IF (a \div 2^i) % 2 = 1 \/ (b \div 2^i) % 2 = 1 THEN 2^i ELSE 0

\* a | b of two values below 2^16
BitOr(a, b) ==
    (((OrBit(a, b, 0) + OrBit(a, b, 1)) + (OrBit(a, b, 2) + OrBit(a, b, 3)))
     + ((OrBit(a, b, 4) + OrBit(a, b, 5)) + (OrBit(a, b, 6) + OrBit(a, b, 7))))
    + (((OrBit(a, b, 8) + OrBit(a, b, 9)) + (OrBit(a, b, 10) + OrBit(a, b, 11)))
       + ((OrBit(a, b, 12) + OrBit(a, b, 13)) + (OrBit(a, b, 14) + OrBit(a, b, 15))))

\* static_cast<uint8>(v)
U8(v) == v % 256

\* static_cast<signed char>(v)
S8(v) == LET u == v % 256 IN IF u >= 128 THEN u - 256 ELSE u

\* CLAMP(ll, x, ul)
CLAMP(ll, v, ul) == IF v < ll THEN ll ELSE IF v > ul THEN ul ELSE v

table59T == <<3, 6, 11, 16, 23, 32, 41, 64>>
table58H == <<3, 6, 11, 16, 23, 32, 41, 64>>

compressParams ==
    << <<-8, -2, 2, 8>>,       <<-8, -2, 2, 8>>,       <<-17, -5, 5, 17>>,
       <<-17, -5, 5, 17>>,     <<-29, -9, 9, 29>>,     <<-29, -9, 9, 29>>,
       <<-42, -13, 13, 42>>,   <<-42, -13, 13, 42>>,   <<-60, -18, 18, 60>>,
       <<-60, -18, 18, 60>>,   <<-80, -24, 24, 80>>,   <<-80, -24, 24, 80>>,
       <<-106, -33, 33, 106>>, <<-106, -33, 33, 106>>, <<-183, -47, 47, 183>>,
       <<-183, -47, 47, 183>> >>

unscramble == <<2, 3, 1, 0>>

PATTERN_H == 0
PATTERN_T == 1

----------------------------------------------------------------------------
(* The unstuffing converters; each gives <<word1, word2>> *)

unstuff57bits(planar_word1, planar_word2) ==
    LET RO  == U8(GETBITSHIGH(planar_word1, 6, 62))
        GO1 == U8(GETBITSHIGH(planar_word1, 1, 56))
        GO2 == U8(GETBITSHIGH(planar_word1, 6, 54))
        BO1 == U8(GETBITSHIGH(planar_word1, 1, 48))
        BO2 == U8(GETBITSHIGH(planar_word1, 2, 44))
        BO3 == U8(GETBITSHIGH(planar_word1, 3, 41))
        RH1 == U8(GETBITSHIGH(planar_word1, 5, 38))
        RH2 == U8(GETBITSHIGH(planar_word1, 1, 32))
        GH  == U8(GETBITS(planar_word2, 7, 31))
        BH  == U8(GETBITS(planar_word2, 6, 24))
        RV  == U8(GETBITS(planar_word2, 6, 18))
        GV  == U8(GETBITS(planar_word2, 7, 12))
        BV  == U8(GETBITS(planar_word2, 6, 5))
        a1 == PUTBITSHIGH(ZeroWord, ToWord(RO), 6, 63)
        a2 == PUTBITSHIGH(a1, ToWord(GO1), 1, 57)
        a3 == PUTBITSHIGH(a2, ToWord(GO2), 6, 56)
        a4 == PUTBITSHIGH(a3, ToWord(BO1), 1, 50)
        a5 == PUTBITSHIGH(a4, ToWord(BO2), 2, 49)
        a6 == PUTBITSHIGH(a5, ToWord(BO3), 3, 47)
        a7 == PUTBITSHIGH(a6, ToWord(RH1), 5, 44)
        a8 == PUTBITSHIGH(a7, ToWord(RH2), 1, 39)
        a9 == PUTBITSHIGH(a8, ToWord(GH), 7, 38)
        c1 == PUTBITS(ZeroWord, ToWord(BH), 6, 31)
        c2 == PUTBITS(c1, ToWord(RV), 6, 25)
        c3 == PUTBITS(c2, ToWord(GV), 7, 19)
        c4 == PUTBITS(c3, ToWord(BV), 6, 12)
    IN  <<a9, c4>>

unstuff58bits(thumbH_word1, thumbH_word2) ==
    LET part0 == GETBITSHIGH(thumbH_word1, 7, 62)
        part1 == GETBITSHIGH(thumbH_word1, 2, 52)
        part2 == GETBITSHIGH(thumbH_word1, 16, 49)
        part3 == GETBITSHIGH(thumbH_word1, 1, 32)
        a1 == PUTBITSHIGH(ZeroWord, ToWord(part0), 7, 57)
        a2 == PUTBITSHIGH(a1, ToWord(part1), 2, 50)
        a3 == PUTBITSHIGH(a2, ToWord(part2), 16, 48)
        a4 == PUTBITSHIGH(a3, ToWord(part3), 1, 32)
    IN  <<a4, thumbH_word2>>

\* the T converter without the clearing of the five top bits
unstuff59bits_NoClear(thumbT_word1, thumbT_word2) ==
    LET a1 == ShiftRight1(thumbT_word1)
        a2 == PUTBITSHIGH(a1, thumbT_word1, 1, 32)
        R0a == U8(GETBITSHIGH(thumbT_word1, 2, 60))
        a3 == PUTBITSHIGH(a2, ToWord(R0a), 2, 58)
    IN  <<a3, thumbT_word2>>

unstuff59bits(thumbT_word1, thumbT_word2) ==
    LET a1 == ShiftRight1(thumbT_word1)
        a2 == PUTBITSHIGH(a1, thumbT_word1, 1, 32)
        R0a == U8(GETBITSHIGH(thumbT_word1, 2, 60))
        a3 == PUTBITSHIGH(a2, ToWord(R0a), 2, 58)
        a4 == PUTBITSHIGH(a3, ToWord(0), 5, 63)
    IN  <<a4, thumbT_word2>>

----------------------------------------------------------------------------
(* The destination buffer *)

\* the same stores with a texel stride of three bytes whatever channels is
SetRGB_ThreeChannels(im, width, x, y, ch, rgb) ==
    [im EXCEPT ![3 * (y * width + x) + 0] = rgb[1],
               ![3 * (y * width + x) + 1] = rgb[2],
               ![3 * (y * width + x) + 2] = rgb[3]]

\* the same stores followed by a store of 255 to the fourth byte of the texel
\* when channels is 4
SetRGB_OpaqueAlpha(im, width, x, y, ch, rgb) ==
    [im EXCEPT ![ch * (y * width + x) + 0] = rgb[1],
               ![ch * (y * width + x) + 1] = rgb[2],
               ![ch * (y * width + x) + 2] = rgb[3],
               ![ch * (y * width + x) + (IF ch = 4 THEN 3 ELSE 2)] =
                   IF ch = 4 THEN 255 ELSE rgb[3]]

\* img[channels * (y * width + x) + c] = rgb[c] for the channels R, G, B
SetRGB(im, width, x, y, ch, rgb) ==
    [im EXCEPT ![ch * (y * width + x) + 0] = rgb[1],
               ![ch * (y * width + x) + 1] = rgb[2],
               ![ch * (y * width + x) + 2] = rgb[3]]

----------------------------------------------------------------------------
(* T-mode and H-mode *)

\* the expansion of one component: (c << (8 - bits)) | (c >> (bits - (8 - bits)))
ExpandColor(c, nbits) ==
    U8(BitOr(c * 2^(8 - nbits), c \div 2^(nbits - (8 - nbits))))

\* decompressColor: colors[i][c] from colors_RGB444[i][c]
decompressColor(R_B, G_B, B_B, colors_RGB444) ==
    << <<ExpandColor(colors_RGB444[1][1], R_B), ExpandColor(colors_RGB444[1][2], G_B),
         ExpandColor(colors_RGB444[1][3], B_B)>>,
       <<ExpandColor(colors_RGB444[2][1], R_B), ExpandColor(colors_RGB444[2][2], G_B),
         ExpandColor(colors_RGB444[2][3], B_B)>> >>

\* the T paint colours with color1 + d and color1 exchanged
calculatePaintColors59T_Exchanged(d, p, colors) ==
    IF p = PATTERN_T
    THEN << colors[1],
            colors[2],
            <<U8(CLAMP(0, colors[2][1] + table59T[d + 1], 255)),
              U8(CLAMP(0, colors[2][2] + table59T[d + 1], 255)),
              U8(CLAMP(0, colors[2][3] + table59T[d + 1], 255))>>,
            <<U8(CLAMP(0, colors[2][1] - table59T[d + 1], 255)),
              U8(CLAMP(0, colors[2][2] - table59T[d + 1], 255)),
              U8(CLAMP(0, colors[2][3] - table59T[d + 1], 255))>> >>
    ELSE <<"exit">>

\* possible_colors[0..3], as a sequence of four RGB triples
calculatePaintColors59T(d, p, colors) ==
    LET c3 == <<U8(CLAMP(0, colors[2][1] - table59T[d + 1], 255)),
                U8(CLAMP(0, colors[2][2] - table59T[d + 1], 255)),
                U8(CLAMP(0, colors[2][3] - table59T[d + 1], 255))>>
    IN  IF p = PATTERN_T
        THEN << colors[1],
                <<U8(CLAMP(0, colors[2][1] + table59T[d + 1], 255)),
                  U8(CLAMP(0, colors[2][2] + table59T[d + 1], 255)),
                  U8(CLAMP(0, colors[2][3] + table59T[d + 1], 255))>>,
                colors[2],
                c3 >>
        ELSE <<"exit">>

calculatePaintColors58H(d, p, colors) ==
    LET c3 == <<U8(CLAMP(0, colors[2][1] - table58H[d + 1], 255)),
                U8(CLAMP(0, colors[2][2] - table58H[d + 1], 255)),
                U8(CLAMP(0, colors[2][3] - table58H[d + 1], 255))>>
    IN  IF p = PATTERN_H
        THEN << <<U8(CLAMP(0, colors[1][1] + table58H[d + 1], 255)),
                  U8(CLAMP(0, colors[1][2] + table58H[d + 1], 255)),
                  U8(CLAMP(0, colors[1][3] + table58H[d + 1], 255))>>,
                <<U8(CLAMP(0, colors[1][1] - table58H[d + 1], 255)),
                  U8(CLAMP(0, colors[1][2] - table58H[d + 1], 255)),
                  U8(CLAMP(0, colors[1][3] - table58H[d + 1], 255))>>,
                <<U8(CLAMP(0, colors[2][1] + table58H[d + 1], 255)),
                  U8(CLAMP(0, colors[2][2] + table58H[d + 1], 255)),
                  U8(CLAMP(0, colors[2][3] + table58H[d + 1], 255))>>,
                c3 >>
        ELSE <<"exit">>

\* block_mask[x][y] of the T and H decoders
BlockMask(w2, x, y) ==
    BitOr(U8(GETBITS(w2, 1, (y + x * 4) + 16) * 2), GETBITS(w2, 1, (y + x * 4)))

RECURSIVE PaintLoopY(_, _, _, _, _, _, _, _)
\* for (int y = 0; y < BLOCKHEIGHT; ++y) of the T and H decoders, for one x;
\* st = <<img, y>>
PaintLoopY(st, x, paint_colors, w2, width, sx, sy, ch) ==
    IF st[2] >= 4 THEN st[1]
    ELSE LET pcol == paint_colors[BlockMask(w2, x, st[2]) + 1]
             rgb == <<U8(CLAMP(0, pcol[1], 255)), U8(CLAMP(0, pcol[2], 255)),
                      U8(CLAMP(0, pcol[3], 255))>>
         IN  PaintLoopY(<<SetRGB(st[1], width, sx + x, sy + st[2], ch, rgb),
                          st[2] + 1>>,
                        x, paint_colors, w2, width, sx, sy, ch)

RECURSIVE PaintLoop(_, _, _, _, _, _, _)
\* for (int x = 0; x < BLOCKWIDTH; ++x) of the T and H decoders; st = <<img, x>>
PaintLoop(st, paint_colors, w2, width, sx, sy, ch) ==
    IF st[2] >= 4 THEN st[1]
    ELSE PaintLoop(<<PaintLoopY(<<st[1], 0>>, st[2], paint_colors, w2, width, sx,
                                sy, ch),
                     st[2] + 1>>,
                   paint_colors, w2, width, sx, sy, ch)

decompressBlockTHUMB59Tc(w1, w2, im, width, sx, sy, ch) ==
    LET colorsRGB444 ==
            << <<U8(GETBITSHIGH(w1, 4, 58)), U8(GETBITSHIGH(w1, 4, 54)),
                 U8(GETBITSHIGH(w1, 4, 50))>>,
               <<U8(GETBITSHIGH(w1, 4, 46)), U8(GETBITSHIGH(w1, 4, 42)),
                 U8(GETBITSHIGH(w1, 4, 38))>> >>
        distance == U8(GETBITSHIGH(w1, 3, 34))
        colors == decompressColor(4, 4, 4, colorsRGB444)
        paint_colors == calculatePaintColors59T(distance, PATTERN_T, colors)
    IN  PaintLoop(<<im, 0>>, paint_colors, w2, width, sx, sy, ch)

\* the H decoder taking the distance index without the comparison bit
decompressBlockTHUMB58Hc_StoredDistance(w1, w2, im, width, sx, sy, ch) ==
    LET colorsRGB444 ==
            << <<U8(GETBITSHIGH(w1, 4, 57)), U8(GETBITSHIGH(w1, 4, 53)),
                 U8(GETBITSHIGH(w1, 4, 49))>>,
               <<U8(GETBITSHIGH(w1, 4, 45)), U8(GETBITSHIGH(w1, 4, 41)),
                 U8(GETBITSHIGH(w1, 4, 37))>> >>
        distance == U8(GETBITSHIGH(w1, 2, 33) * 2)
        colors == decompressColor(4, 4, 4, colorsRGB444)
        paint_colors == calculatePaintColors58H(distance, PATTERN_H, colors)
    IN  PaintLoop(<<im, 0>>, paint_colors, w2, width, sx, sy, ch)

decompressBlockTHUMB58Hc(w1, w2, im, width, sx, sy, ch) ==
    LET colorsRGB444 ==
            << <<U8(GETBITSHIGH(w1, 4, 57)), U8(GETBITSHIGH(w1, 4, 53)),
                 U8(GETBITSHIGH(w1, 4, 49))>>,
               <<U8(GETBITSHIGH(w1, 4, 45)), U8(GETBITSHIGH(w1, 4, 41)),
                 U8(GETBITSHIGH(w1, 4, 37))>> >>
        distance0 == U8(GETBITSHIGH(w1, 2, 33) * 2)
        col0 == GETBITSHIGH(w1, 12, 57)
        col1 == GETBITSHIGH(w1, 12, 45)
        distance == IF col0 >= col1 THEN BitOr(distance0, 1) ELSE distance0
        colors == decompressColor(4, 4, 4, colorsRGB444)
        paint_colors == calculatePaintColors58H(distance, PATTERN_H, colors)
    IN  PaintLoop(<<im, 0>>, paint_colors, w2, width, sx, sy, ch)

----------------------------------------------------------------------------
(* Planar mode *)

\* the interpolation without the rounding term 2
PlanarValue_NoRounding(xx, yy, cO, cH, cV) ==
    U8(CLAMP(0, (xx * (cH - cO) + yy * (cV - cO) + 4 * cO) \div 4, 255))

\* one channel of one texel, lines 933-953
PlanarValue(xx, yy, cO, cH, cV) ==
    U8(CLAMP(0, (xx * (cH - cO) + yy * (cV - cO) + 4 * cO + 2) \div 4, 255))

RECURSIVE PlanarLoopY(_, _, _, _, _, _, _, _, _)
\* for (yy = 0; yy < 4; yy++) for one xx; st = <<img, yy>>
PlanarLoopY(st, xx, colorO, colorH, colorV, width, sx, sy, ch) ==
    IF st[2] >= 4 THEN st[1]
    ELSE LET yy == st[2]
             at == ch * width * (sy + yy) + ch * (sx + xx)
         IN  PlanarLoopY(
                << [st[1] EXCEPT
                    ![at + 0] = PlanarValue(xx, yy, colorO[1], colorH[1], colorV[1]),
                    ![at + 1] = PlanarValue(xx, yy, colorO[2], colorH[2], colorV[2]),
                    ![at + 2] = PlanarValue(xx, yy, colorO[3], colorH[3], colorV[3])],
                   st[2] + 1 >>,
                xx, colorO, colorH, colorV, width, sx, sy, ch)

RECURSIVE PlanarLoop(_, _, _, _, _, _, _, _)
\* for (xx = 0; xx < 4; xx++); st = <<img, xx>>
PlanarLoop(st, colorO, colorH, colorV, width, sx, sy, ch) ==
    IF st[2] >= 4 THEN st[1]
    ELSE PlanarLoop(<<PlanarLoopY(<<st[1], 0>>, st[2], colorO, colorH, colorV,
                                  width, sx, sy, ch),
                      st[2] + 1>>,
                    colorO, colorH, colorV, width, sx, sy, ch)

\* (c << 2) | (c >> 4) of a 6-bit component, as uint8
Expand6(c) == U8(BitOr(c * 4, c \div 16))

\* (c << 1) | (c >> 6) of a 7-bit component, as uint8
Expand7(c) == U8(BitOr(c * 2, c \div 64))

decompressBlockPlanar57c(w1, w2, im, width, sx, sy, ch) ==
    LET colorO == <<Expand6(U8(GETBITSHIGH(w1, 6, 63))),
                    Expand7(U8(GETBITSHIGH(w1, 7, 57))),
                    Expand6(U8(GETBITSHIGH(w1, 6, 50)))>>
        colorH == <<Expand6(U8(GETBITSHIGH(w1, 6, 44))),
                    Expand7(U8(GETBITSHIGH(w1, 7, 38))),
                    Expand6(U8(GETBITS(w2, 6, 31)))>>
        colorV == <<Expand6(U8(GETBITS(w2, 6, 25))),
                    Expand7(U8(GETBITS(w2, 7, 19))),
                    Expand6(U8(GETBITS(w2, 6, 12)))>>
    IN  PlanarLoop(<<im, 0>>, colorO, colorH, colorV, width, sx, sy, ch)

----------------------------------------------------------------------------
(* Individual and differential mode *)

\* one texel of the loops of decompressBlockDiffFlipC (lines 1020-1030);
\* c holds avg_color, table, the two index planes, width and channels, and
\* dst = <<img, stores>> is the buffer with the texels stored so far
DiffFlipTexel(dst, c, x, y, shift) ==
    LET index0 == BitOr(((c.msb \div 2^shift) % 2) * 2, (c.lsb \div 2^shift) % 2)
        index == unscramble[index0 + 1]
        d == compressParams[c.table + 1][index + 1]
    IN  <<SetRGB(dst[1], c.width, x, y, c.ch,
                 <<U8(CLAMP(0, c.avg[1] + d, 255)),
                   U8(CLAMP(0, c.avg[2] + d, 255)),
                   U8(CLAMP(0, c.avg[3] + d, 255))>>),
          Append(dst[2], <<x, y>>)>>

RECURSIVE DiffFlipInner(_, _, _, _)
\* for (y = y0; y < y1; y++) { ...; shift++; } with st = <<dst, y, shift>>;
\* gives <<dst, y1, shift>>
DiffFlipInner(st, c, x, y1) ==
    IF st[2] >= y1 THEN st
    ELSE DiffFlipInner(<<DiffFlipTexel(st[1], c, x, st[2], st[3]), st[2] + 1,
                         st[3] + 1>>, c, x, y1)

RECURSIVE DiffFlipOuter(_, _, _, _, _, _)
\* for (x = x0; x < x1; x++) { inner loop; shift += skip; } with
\* st = <<dst, x, shift>>; gives dst
DiffFlipOuter(st, c, x1, y0, y1, skip) ==
    IF st[2] >= x1 THEN st[1]
    ELSE LET r == DiffFlipInner(<<st[1], y0, st[3]>>, c, st[2], y1)
         IN  DiffFlipOuter(<<r[1], st[2] + 1, r[3] + skip>>, c, x1, y0, y1, skip)

\* the first pass running over the whole tile
DiffFlipFirst_WholeTile(im, c, flipbit, sx, sy) ==
    DiffFlipOuter(<<im, sx, 0>>, c, sx + 4, sy, sy + 4, 0)

\* the loops over the first sub-block (lines 1015-1052 and 1147-1184)
DiffFlipFirst(im, c, flipbit, sx, sy) ==
    IF flipbit = 0
    THEN DiffFlipOuter(<<im, sx, 0>>, c, sx + 2, sy, sy + 4, 0)
    ELSE DiffFlipOuter(<<im, sx, 0>>, c, sx + 4, sy, sy + 2, 2)

\* the second sub-block read with the index bits of the first
DiffFlipSecond_FirstShift(im, c, flipbit, sx, sy) ==
    IF flipbit = 0
    THEN DiffFlipOuter(<<im, sx + 2, 0>>, c, sx + 4, sy, sy + 4, 0)
    ELSE DiffFlipOuter(<<im, sx, 0>>, c, sx + 4, sy + 2, sy + 4, 2)

\* the loops over the second sub-block (lines 1070-1107 and 1213-1250)
DiffFlipSecond(im, c, flipbit, sx, sy) ==
    IF flipbit = 0
    THEN DiffFlipOuter(<<im, sx + 2, 8>>, c, sx + 4, sy, sy + 4, 0)
    ELSE DiffFlipOuter(<<im, sx, 2>>, c, sx + 4, sy + 2, sy + 4, 2)

\* avg_color |= (avg_color << 4), as uint8
Expand4(v) == U8(BitOr(v, v * 16))

\* (enc << 3) | (enc >> 2), as uint8
Expand5(v) == U8(BitOr(v * 8, v \div 4))

\* the sign extension of a 3-bit field: (signed char)(d << 5) >> 5
SignExtend3(d) == S8(S8(S8(d) * 32) \div 32)

\* decompressBlockDiffFlipC: the buffer it leaves and the texels it stored
decompressBlockDiffFlipC(w1, w2, im, width, sx, sy, ch) ==
    LET diffbit == GETBITSHIGH(w1, 1, 33)
        flipbit == GETBITSHIGH(w1, 1, 32)
        msb == GETBITS(w2, 16, 31)
        lsb == GETBITS(w2, 16, 15)
        table1 == GETBITSHIGH(w1, 3, 39) * 2
        table2 == GETBITSHIGH(w1, 3, 36) * 2
        Ctx(avg, table) ==
            [avg |-> avg, table |-> table, msb |-> msb, lsb |-> lsb,
             width |-> width, ch |-> ch]
    IN  IF diffbit = 0
        THEN LET avg1 == <<Expand4(U8(GETBITSHIGH(w1, 4, 63))),
                           Expand4(U8(GETBITSHIGH(w1, 4, 55))),
                           Expand4(U8(GETBITSHIGH(w1, 4, 47)))>>
                 avg2 == <<Expand4(U8(GETBITSHIGH(w1, 4, 59))),
                           Expand4(U8(GETBITSHIGH(w1, 4, 51))),
                           Expand4(U8(GETBITSHIGH(w1, 4, 43)))>>
                 im1 == DiffFlipFirst(<<im, <<>>>>, Ctx(avg1, table1), flipbit,
                                      sx, sy)
             IN  DiffFlipSecond(im1, Ctx(avg2, table2), flipbit, sx, sy)
        ELSE LET enc_color1 == <<U8(GETBITSHIGH(w1, 5, 63)),
                                 U8(GETBITSHIGH(w1, 5, 55)),
                                 U8(GETBITSHIGH(w1, 5, 47))>>
                 avg1 == <<Expand5(enc_color1[1]), Expand5(enc_color1[2]),
                           Expand5(enc_color1[3])>>
                 im1 == DiffFlipFirst(<<im, <<>>>>, Ctx(avg1, table1), flipbit,
                                      sx, sy)
                 diff == <<SignExtend3(GETBITSHIGH(w1, 3, 58)),
                           SignExtend3(GETBITSHIGH(w1, 3, 50)),
                           SignExtend3(GETBITSHIGH(w1, 3, 42))>>
                 enc_color2 == <<U8(enc_color1[1] + diff[1]),
                                 U8(enc_color1[2] + diff[2]),
                                 U8(enc_color1[3] + diff[3])>>
                 avg2 == <<Expand5(enc_color2[1]), Expand5(enc_color2[2]),
                           Expand5(enc_color2[3])>>
             IN  DiffFlipSecond(im1, Ctx(avg2, table2), flipbit, sx, sy)

----------------------------------------------------------------------------
(* The mode dispatcher *)

\* the dispatcher testing green before red
ETC2Mode_GreenFirst(w1) ==
    LET diffbit == GETBITSHIGH(w1, 1, 33)
        color1 == <<S8(GETBITSHIGH(w1, 5, 63)), S8(GETBITSHIGH(w1, 5, 55)),
                    S8(GETBITSHIGH(w1, 5, 47))>>
        diff == <<SignExtend3(GETBITSHIGH(w1, 3, 58)),
                  SignExtend3(GETBITSHIGH(w1, 3, 50)),
                  SignExtend3(GETBITSHIGH(w1, 3, 42))>>
        red == S8(color1[1] + diff[1])
        green == S8(color1[2] + diff[2])
        blue == S8(color1[3] + diff[3])
    IN  IF diffbit # 0
        THEN IF green < 0 \/ green > 31 THEN "H"
             ELSE IF red < 0 \/ red > 31 THEN "T"
             ELSE IF blue < 0 \/ blue > 31 THEN "Planar"
             ELSE "DiffFlip"
        ELSE "DiffFlip"

\* the decoder decompressBlockETC2c chooses (lines 1271-1322): "T", "H",
\* "Planar" or "DiffFlip"
ETC2Mode(w1) ==
    LET diffbit == GETBITSHIGH(w1, 1, 33)
        color1 == <<S8(GETBITSHIGH(w1, 5, 63)), S8(GETBITSHIGH(w1, 5, 55)),
                    S8(GETBITSHIGH(w1, 5, 47))>>
        diff == <<SignExtend3(GETBITSHIGH(w1, 3, 58)),
                  SignExtend3(GETBITSHIGH(w1, 3, 50)),
                  SignExtend3(GETBITSHIGH(w1, 3, 42))>>
        red == S8(color1[1] + diff[1])
        green == S8(color1[2] + diff[2])
        blue == S8(color1[3] + diff[3])
    IN  IF diffbit # 0
        THEN IF red < 0 \/ red > 31 THEN "T"
             ELSE IF green < 0 \/ green > 31 THEN "H"
             ELSE IF blue < 0 \/ blue > 31 THEN "Planar"
             ELSE "DiffFlip"
        ELSE "DiffFlip"

\* decompressBlockETC2c: the buffer it leaves, the functions it called and
\* the texels decompressBlockDiffFlipC stored
decompressBlockETC2c(w1, w2, im, width, sx, sy, ch) ==
    LET mode == ETC2Mode(w1)
    IN  IF mode = "T"
        THEN LET b == unstuff59bits(w1, w2)
             IN  [img |-> decompressBlockTHUMB59Tc(b[1], b[2], im, width, sx, sy, ch),
                  calls |-> <<"unstuff59bits", "decompressBlockTHUMB59Tc">>,
                  stores |-> <<>>]
        ELSE IF mode = "H"
        THEN LET b == unstuff58bits(w1, w2)
             IN  [img |-> decompressBlockTHUMB58Hc(b[1], b[2], im, width, sx, sy, ch),
                  calls |-> <<"unstuff58bits", "decompressBlockTHUMB58Hc">>,
                  stores |-> <<>>]
        ELSE IF mode = "Planar"
        THEN LET b == unstuff57bits(w1, w2)
             IN  [img |-> decompressBlockPlanar57c(b[1], b[2], im, width, sx, sy, ch),
                  calls |-> <<"unstuff57bits", "decompressBlockPlanar57c">>,
                  stores |-> <<>>]
        ELSE LET Stored(r) == [img |-> r[1],
                               calls |-> <<"decompressBlockDiffFlipC">>,
                               stores |-> r[2]]
             IN  Stored(decompressBlockDiffFlipC(w1, w2, im, width, sx, sy, ch))

----------------------------------------------------------------------------
(* The decoders with 1-bit punch-through alpha *)

\* The destination of these decoders is the pair bufs = <<img, alpha>>: with
\* channelsRGB = 3 the alpha bytes go to the separate buffer alpha, one byte
\* per texel; otherwise alpha = &img[0 + 3] and channelsA = 4.
\* alpha[channelsA * (y * width + x)] = a
SetAlpha(bufs, width, x, y, ch, a) ==
    IF ch = 3
    THEN <<bufs[1], [bufs[2] EXCEPT ![1 * (y * width + x)] = a]>>
    ELSE <<[bufs[1] EXCEPT ![3 + 4 * (y * width + x)] = a], bufs[2]>>

\* the texel with the transparency test made on index 2
WithAlphaTexel_IndexTwo(bufs, c, x, y, shift) ==
    LET index0 == BitOr(((c.msb \div 2^shift) % 2) * 2, (c.lsb \div 2^shift) % 2)
        Store(index) ==
            LET mod == IF c.diffbit = 0 /\ (index = 1 \/ index = 2) THEN 0
                       ELSE compressParams[c.table + 1][index + 1]
                transparent == c.diffbit = 0 /\ index = 2
                rgb == IF transparent THEN <<0, 0, 0>>
                       ELSE <<U8(CLAMP(0, c.avg[1] + mod, 255)),
                              U8(CLAMP(0, c.avg[2] + mod, 255)),
                              U8(CLAMP(0, c.avg[3] + mod, 255))>>
            IN  SetAlpha(<<SetRGB(bufs[1], c.width, x, y, c.ch, rgb), bufs[2]>>,
                         c.width, x, y, c.ch, IF transparent THEN 0 ELSE 255)
    IN  Store(unscramble[index0 + 1])

\* one texel of the loops of decompressBlockDifferentialWithAlphaC (lines
\* 1385-1408); c holds avg_color, table, the two index planes, width,
\* channelsRGB and diffbit
WithAlphaTexel(bufs, c, x, y, shift) ==
    LET index0 == BitOr(((c.msb \div 2^shift) % 2) * 2, (c.lsb \div 2^shift) % 2)
        Store(index) ==
            LET mod == IF c.diffbit = 0 /\ (index = 1 \/ index = 2) THEN 0
                       ELSE compressParams[c.table + 1][index + 1]
                transparent == c.diffbit = 0 /\ index = 1
                rgb == IF transparent THEN <<0, 0, 0>>
                       ELSE <<U8(CLAMP(0, c.avg[1] + mod, 255)),
                              U8(CLAMP(0, c.avg[2] + mod, 255)),
                              U8(CLAMP(0, c.avg[3] + mod, 255))>>
            IN  SetAlpha(<<SetRGB(bufs[1], c.width, x, y, c.ch, rgb), bufs[2]>>,
                         c.width, x, y, c.ch, IF transparent THEN 0 ELSE 255)
    IN  Store(unscramble[index0 + 1])

RECURSIVE WithAlphaInner(_, _, _, _)
\* for (y = y0; y < y1; y++) { ...; shift++; } with st = <<bufs, y, shift>>
WithAlphaInner(st, c, x, y1) ==
    IF st[2] >= y1 THEN st
    ELSE WithAlphaInner(<<WithAlphaTexel(st[1], c, x, st[2], st[3]), st[2] + 1,
                          st[3] + 1>>, c, x, y1)

RECURSIVE WithAlphaOuter(_, _, _, _, _, _)
\* for (x = x0; x < x1; x++) { inner loop; shift += skip; } with
\* st = <<bufs, x, shift>>
WithAlphaOuter(st, c, x1, y0, y1, skip) ==
    IF st[2] >= x1 THEN st[1]
    ELSE LET Step(r) ==
                 WithAlphaOuter(<<r[1], st[2] + 1, r[3] + skip>>, c, x1, y0, y1, skip)
         IN  Step(WithAlphaInner(<<st[1], y0, st[3]>>, c, st[2], y1))

\* the loops over the first sub-block (lines 1378-1439)
WithAlphaFirst(bufs, c, flipbit, sx, sy) ==
    IF flipbit = 0
    THEN WithAlphaOuter(<<bufs, sx, 0>>, c, sx + 2, sy, sy + 4, 0)
    ELSE WithAlphaOuter(<<bufs, sx, 0>>, c, sx + 4, sy, sy + 2, 2)

\* the loops over the second sub-block (lines 1467-1528)
WithAlphaSecond(bufs, c, flipbit, sx, sy) ==
    IF flipbit = 0
    THEN WithAlphaOuter(<<bufs, sx + 2, 8>>, c, sx + 4, sy, sy + 4, 0)
    ELSE WithAlphaOuter(<<bufs, sx, 2>>, c, sx + 4, sy + 2, sy + 4, 2)

\* decompressBlockDifferentialWithAlphaC: <<img, alpha>> after the call
decompressBlockDifferentialWithAlphaC(w1, w2, bufs, width, sx, sy, ch) ==
    LET diffbit == GETBITSHIGH(w1, 1, 33)
        flipbit == GETBITSHIGH(w1, 1, 32)
        msb == GETBITS(w2, 16, 31)
        lsb == GETBITS(w2, 16, 15)
        table1 == GETBITSHIGH(w1, 3, 39) * 2
        table2 == GETBITSHIGH(w1, 3, 36) * 2
        Ctx(avg, table) ==
            [avg |-> avg, table |-> table, msb |-> msb, lsb |-> lsb,
             width |-> width, ch |-> ch, diffbit |-> diffbit]
        enc_color1 == <<U8(GETBITSHIGH(w1, 5, 63)), U8(GETBITSHIGH(w1, 5, 55)),
                        U8(GETBITSHIGH(w1, 5, 47))>>
        avg1 == <<Expand5(enc_color1[1]), Expand5(enc_color1[2]),
                  Expand5(enc_color1[3])>>
        bufs1 == WithAlphaFirst(bufs, Ctx(avg1, table1), flipbit, sx, sy)
        diff == <<SignExtend3(GETBITSHIGH(w1, 3, 58)),
                  SignExtend3(GETBITSHIGH(w1, 3, 50)),
                  SignExtend3(GETBITSHIGH(w1, 3, 42))>>
        enc_color2 == <<U8(enc_color1[1] + diff[1]), U8(enc_color1[2] + diff[2]),
                        U8(enc_color1[3] + diff[3])>>
        avg2 == <<Expand5(enc_color2[1]), Expand5(enc_color2[2]),
                  Expand5(enc_color2[3])>>
    IN  WithAlphaSecond(bufs1, Ctx(avg2, table2), flipbit, sx, sy)

RECURSIVE PaintAlphaLoopY(_, _, _, _, _, _, _, _)
\* for (uint8 y = 0; y < BLOCKHEIGHT; ++y) of the T and H decoders with alpha,
\* for one x; st = <<bufs, y>>
PaintAlphaLoopY(st, x, paint_colors, w2, width, sx, sy, ch) ==
    IF st[2] >= 4 THEN st[1]
    ELSE LET mask == BlockMask(w2, x, st[2])
             pcol == paint_colors[mask + 1]
             rgb == IF mask = 2 THEN <<0, 0, 0>>
                    ELSE <<U8(CLAMP(0, pcol[1], 255)), U8(CLAMP(0, pcol[2], 255)),
                           U8(CLAMP(0, pcol[3], 255))>>
             im1 == SetRGB(st[1][1], width, sx + x, sy + st[2], ch, rgb)
         IN  PaintAlphaLoopY(
                 <<SetAlpha(<<im1, st[1][2]>>, width, sx + x, sy + st[2], ch,
                            IF mask = 2 THEN 0 ELSE 255),
                   st[2] + 1>>,
                 x, paint_colors, w2, width, sx, sy, ch)

RECURSIVE PaintAlphaLoop(_, _, _, _, _, _, _)
\* for (uint8 x = 0; x < BLOCKWIDTH; ++x) of the T and H decoders with alpha;
\* st = <<bufs, x>>
PaintAlphaLoop(st, paint_colors, w2, width, sx, sy, ch) ==
    IF st[2] >= 4 THEN st[1]
    ELSE PaintAlphaLoop(<<PaintAlphaLoopY(<<st[1], 0>>, st[2], paint_colors, w2,
                                          width, sx, sy, ch),
                          st[2] + 1>>,
                        paint_colors, w2, width, sx, sy, ch)

decompressBlockTHUMB59TAlphaC(w1, w2, bufs, width, sx, sy, ch) ==
    LET colorsRGB444 ==
            << <<U8(GETBITSHIGH(w1, 4, 58)), U8(GETBITSHIGH(w1, 4, 54)),
                 U8(GETBITSHIGH(w1, 4, 50))>>,
               <<U8(GETBITSHIGH(w1, 4, 46)), U8(GETBITSHIGH(w1, 4, 42)),
                 U8(GETBITSHIGH(w1, 4, 38))>> >>
        distance == U8(GETBITSHIGH(w1, 3, 34))
        colors == decompressColor(4, 4, 4, colorsRGB444)
        paint_colors == calculatePaintColors59T(distance, PATTERN_T, colors)
    IN  PaintAlphaLoop(<<bufs, 0>>, paint_colors, w2, width, sx, sy, ch)

decompressBlockTHUMB58HAlphaC(w1, w2, bufs, width, sx, sy, ch) ==
    LET colorsRGB444 ==
            << <<U8(GETBITSHIGH(w1, 4, 57)), U8(GETBITSHIGH(w1, 4, 53)),
                 U8(GETBITSHIGH(w1, 4, 49))>>,
               <<U8(GETBITSHIGH(w1, 4, 45)), U8(GETBITSHIGH(w1, 4, 41)),
                 U8(GETBITSHIGH(w1, 4, 37))>> >>
        distance0 == U8(GETBITSHIGH(w1, 2, 33) * 2)
        col0 == GETBITSHIGH(w1, 12, 57)
        col1 == GETBITSHIGH(w1, 12, 45)
        distance == IF col0 >= col1 THEN BitOr(distance0, 1) ELSE distance0
        colors == decompressColor(4, 4, 4, colorsRGB444)
        paint_colors == calculatePaintColors58H(distance, PATTERN_H, colors)
    IN  PaintAlphaLoop(<<bufs, 0>>, paint_colors, w2, width, sx, sy, ch)

\* for x, y over the tile: alphaimg[channelsA * (x + y * width)] = 255
OpaqueTile(bufs, width, sx, sy, ch) ==
    LET InTile(t) == /\ t % width >= sx /\ t % width < sx + 4
                     /\ t \div width >= sy /\ t \div width < sy + 4
    IN  IF ch = 3
        THEN <<bufs[1],
               [i \in DOMAIN bufs[2] |-> IF InTile(i) THEN 255 ELSE bufs[2][i]]>>
        ELSE <<[i \in DOMAIN bufs[1] |->
                   IF i % 4 = 3 /\ InTile(i \div 4) THEN 255 ELSE bufs[1][i]],
               bufs[2]>>

\* the dispatcher sending every block without the opaque bit to the
\* differential decoder
PunchthroughMode_TransparentDifferential(w1) ==
    LET diffbit == GETBITSHIGH(w1, 1, 33)
        color1 == <<S8(GETBITSHIGH(w1, 5, 63)), S8(GETBITSHIGH(w1, 5, 55)),
                    S8(GETBITSHIGH(w1, 5, 47))>>
        diff == <<SignExtend3(GETBITSHIGH(w1, 3, 58)),
                  SignExtend3(GETBITSHIGH(w1, 3, 50)),
                  SignExtend3(GETBITSHIGH(w1, 3, 42))>>
        red == S8(color1[1] + diff[1])
        green == S8(color1[2] + diff[2])
        blue == S8(color1[3] + diff[3])
    IN  IF diffbit = 0 THEN "DiffFlip"
        ELSE IF red < 0 \/ red > 31 THEN "T"
        ELSE IF green < 0 \/ green > 31 THEN "H"
        ELSE IF blue < 0 \/ blue > 31 THEN "Planar"
        ELSE "DiffFlip"

\* the tests of decompressBlockETC21BitAlphaC on base + delta, the same in
\* both branches of the diff bit (lines 1741-1762 and 1789-1816)
PunchthroughMode(w1) ==
    LET color1 == <<S8(GETBITSHIGH(w1, 5, 63)), S8(GETBITSHIGH(w1, 5, 55)),
                    S8(GETBITSHIGH(w1, 5, 47))>>
        diff == <<SignExtend3(GETBITSHIGH(w1, 3, 58)),
                  SignExtend3(GETBITSHIGH(w1, 3, 50)),
                  SignExtend3(GETBITSHIGH(w1, 3, 42))>>
        red == S8(color1[1] + diff[1])
        green == S8(color1[2] + diff[2])
        blue == S8(color1[3] + diff[3])
    IN  IF red < 0 \/ red > 31 THEN "T"
        ELSE IF green < 0 \/ green > 31 THEN "H"
        ELSE IF blue < 0 \/ blue > 31 THEN "Planar"
        ELSE "DiffFlip"

\* decompressBlockETC21BitAlphaC: the buffers it leaves and the functions it
\* called
decompressBlockETC21BitAlphaC(w1, w2, bufs, width, sx, sy, ch) ==
    LET diffbit == GETBITSHIGH(w1, 1, 33)
        mode == PunchthroughMode(w1)
    IN  IF diffbit # 0
        THEN LET Opaque(r) == [bufs |-> OpaqueTile(r.bufs, width, sx, sy, ch),
                                   calls |-> r.calls]
             IN  Opaque(
                   IF mode = "T"
                   THEN LET b == unstuff59bits(w1, w2)
                        IN  [bufs |-> <<decompressBlockTHUMB59Tc(b[1], b[2],
                                          bufs[1], width, sx, sy, ch), bufs[2]>>,
                             calls |-> <<"unstuff59bits",
                                         "decompressBlockTHUMB59Tc">>]
                   ELSE IF mode = "H"
                   THEN LET b == unstuff58bits(w1, w2)
                        IN  [bufs |-> <<decompressBlockTHUMB58Hc(b[1], b[2],
                                          bufs[1], width, sx, sy, ch), bufs[2]>>,
                             calls |-> <<"unstuff58bits",
                                         "decompressBlockTHUMB58Hc">>]
                   ELSE IF mode = "Planar"
                   THEN LET b == unstuff57bits(w1, w2)
                        IN  [bufs |-> <<decompressBlockPlanar57c(b[1], b[2],
                                          bufs[1], width, sx, sy, ch), bufs[2]>>,
                             calls |-> <<"unstuff57bits",
                                         "decompressBlockPlanar57c">>]
                   ELSE [bufs |-> decompressBlockDifferentialWithAlphaC(w1, w2,
                                      bufs, width, sx, sy, ch),
                         calls |-> <<"decompressBlockDifferentialWithAlphaC">>])
        ELSE IF mode = "T"
        THEN LET b == unstuff59bits(w1, w2)
             IN  [bufs |-> decompressBlockTHUMB59TAlphaC(b[1], b[2], bufs, width,
                                                         sx, sy, ch),
                  calls |-> <<"unstuff59bits", "decompressBlockTHUMB59TAlphaC">>]
        ELSE IF mode = "H"
        THEN LET b == unstuff58bits(w1, w2)
             IN  [bufs |-> decompressBlockTHUMB58HAlphaC(b[1], b[2], bufs, width,
                                                         sx, sy, ch),
                  calls |-> <<"unstuff58bits", "decompressBlockTHUMB58HAlphaC">>]
        ELSE IF mode = "Planar"
        THEN LET b == unstuff57bits(w1, w2)
             IN  [bufs |-> OpaqueTile(
                               <<decompressBlockPlanar57c(b[1], b[2], bufs[1],
                                     width, sx, sy, ch), bufs[2]>>,
                               width, sx, sy, ch),
                  calls |-> <<"unstuff57bits", "decompressBlockPlanar57c">>]
        ELSE [bufs |-> decompressBlockDifferentialWithAlphaC(w1, w2, bufs, width,
                                                            sx, sy, ch),
              calls |-> <<"decompressBlockDifferentialWithAlphaC">>]

----------------------------------------------------------------------------
(* One call of decompressBlockETC2c: inputs and action *)

\* the destination image of the block model, in texels
BlockImgWidth == 8
BlockImgHeight == 8

\* The bytes 63..56, 55..48 and 47..40 of a block hold one colour channel
\* each: 5-bit base and 3-bit delta, or two 4-bit values.
\*   136 = 10001 000  17 + 0   (or 8 and 8)
\*   252 = 11111 100  31 - 4   (or 15 and 12)
\*     7 = 00000 111   0 - 1 < 0
\*   251 = 11111 011  31 + 3 > 31
ChannelBytes == {136, 252, 7, 251}

\* byte 39..32: table codeword 1, table codeword 2, diff bit, flip bit
ControlBytes ==
    {t[1] * 32 + t[2] * 4 + d * 2 + fl :
        t \in {<<0, 0>>, <<3, 5>>, <<7, 6>>}, d \in {0, 1}, fl \in {0, 1}}

\* Planar blocks whose three corner colours are the same: (63, 127, 63) with
\* the all-ones low word, and (33, 70, 12) with the low word of FlatLowWord
FlatHighWords == {WordOfBytes(127, 127, 251, 255), WordOfBytes(67, 140, 14, 67)}
FlatLowWord == WordOfBytes(140, 100, 49, 140)

HighWords ==
    {WordOfBytes(r, g, b, c) :
        r \in ChannelBytes, g \in ChannelBytes, b \in ChannelBytes,
        c \in ControlBytes} \cup FlatHighWords

\* the 32 index bits: all 1, and two mixed patterns
LowWords ==
    {WordOfBytes(255, 255, 255, 255), WordOfBytes(165, 195, 60, 90),
     WordOfBytes(18, 52, 171, 205), FlatLowWord}

Origins == {<<0, 0>>, <<4, 4>>}

ChannelCounts == {3, 4}

\* a freshly allocated buffer: every byte unwritten
Unwritten == -1
FreshImg(width, height, ch) == [i \in 0 .. (width * height * ch - 1) |-> Unwritten]

\* the arguments of the call, and a fresh destination buffer
BlockInit ==
    /\ block_part1 \in HighWords
    /\ block_part2 \in LowWords
    /\ \E o \in Origins : startx = o[1] /\ starty = o[2]
    /\ channels \in ChannelCounts
    /\ img = FreshImg(BlockImgWidth, BlockImgHeight, channels)
    /\ calls = <<>>
    /\ alpha = <<>>
    /\ stores = <<>>
    /\ entry = "decompressBlockETC2c"

\* no block call: the state of the block variables in the other specifications
BlockIdle ==
    /\ block_part1 = ZeroWord
    /\ block_part2 = ZeroWord
    /\ startx = 0
    /\ starty = 0
    /\ channels = 0
    /\ img = <<>>
    /\ calls = <<>>
    /\ alpha = <<>>
    /\ stores = <<>>
    /\ entry = "none"

\* decompressBlockETC2c(block_part1, block_part2, img, width, height, startx,
\* starty, channels)
DecodeBlock ==
    /\ calls = <<>>
    /\ entry = "decompressBlockETC2c"
    /\ \E r \in {decompressBlockETC2c(block_part1, block_part2, img,
                    BlockImgWidth, startx, starty, channels)} :
            /\ img' = r.img
            /\ calls' = r.calls
            /\ stores' = r.stores
    /\ UNCHANGED <<block_part1, block_part2, startx, starty, channels, alpha,
                   entry>>
    /\ UNCHANGED <<loadVars, unpackVars>>

BlockNext == DecodeBlock

----------------------------------------------------------------------------
(* One call of a punch-through decoder: inputs and actions *)

\* the functions a caller enters
AlphaEntries ==
    {"decompressBlockETC21BitAlphaC", "decompressBlockDifferentialWithAlphaC"}

\* a freshly allocated alpha buffer, one byte per texel
FreshAlpha(width, height) == [i \in 0 .. (width * height - 1) |-> Unwritten]

\* the arguments of the call, and fresh destination buffers
AlphaInit ==
    /\ block_part1 \in HighWords
    /\ block_part2 \in LowWords
    /\ \E o \in Origins : startx = o[1] /\ starty = o[2]
    /\ channels \in ChannelCounts
    /\ img = FreshImg(BlockImgWidth, BlockImgHeight, channels)
    /\ alpha = FreshAlpha(BlockImgWidth, BlockImgHeight)
    /\ entry \in AlphaEntries
    /\ calls = <<>>
    /\ stores = <<>>

\* decompressBlockETC21BitAlphaC(block_part1, block_part2, img, alpha, width,
\* height, startx, starty, channels)
DecodeBlock1BitAlpha ==
    /\ calls = <<>>
    /\ entry = "decompressBlockETC21BitAlphaC"
    /\ \E r \in {decompressBlockETC21BitAlphaC(block_part1, block_part2,
                    <<img, alpha>>, BlockImgWidth, startx, starty, channels)} :
            /\ img' = r.bufs[1]
            /\ alpha' = r.bufs[2]
            /\ calls' = r.calls
    /\ UNCHANGED <<block_part1, block_part2, startx, starty, channels, stores,
                   entry>>
    /\ UNCHANGED <<loadVars, unpackVars>>

\* decompressBlockDifferentialWithAlphaC(block_part1, block_part2, img, alpha,
\* width, height, startx, starty, channels)
DecodeDifferentialWithAlpha ==
    /\ calls = <<>>
    /\ entry = "decompressBlockDifferentialWithAlphaC"
    /\ \E r \in {decompressBlockDifferentialWithAlphaC(block_part1, block_part2,
                    <<img, alpha>>, BlockImgWidth, startx, starty, channels)} :
            /\ img' = r[1]
            /\ alpha' = r[2]
    /\ calls' = <<"decompressBlockDifferentialWithAlphaC">>
    /\ UNCHANGED <<block_part1, block_part2, startx, starty, channels, stores,
                   entry>>
    /\ UNCHANGED <<loadVars, unpackVars>>

AlphaNext ==
    \/ DecodeBlock1BitAlpha
    \/ DecodeDifferentialWithAlpha

----------------------------------------------------------------------------
(* The 8-bit alpha channel *)

alphaBase ==
    << <<-15, -9, -6, -3>>, <<-13, -10, -7, -3>>, <<-13, -8, -5, -2>>,
       <<-13, -6, -4, -2>>, <<-12, -8, -6, -3>>,  <<-11, -9, -7, -3>>,
       <<-11, -8, -7, -4>>, <<-11, -8, -5, -3>>,  <<-10, -8, -6, -2>>,
       <<-10, -8, -5, -2>>, <<-10, -8, -4, -2>>,  <<-10, -7, -5, -2>>,
       <<-10, -7, -4, -3>>, <<-10, -3, -2, -1>>,  <<-9, -8, -6, -4>>,
       <<-9, -7, -5, -3>> >>

\* int alphaTable[256][8], zero-initialised as every global is; row i is
\* the tuple of alphaTable[i][0] .. alphaTable[i][7]
ZeroAlphaTable == [i \in 0 .. 255 |-> <<0, 0, 0, 0, 0, 0, 0, 0>>]

\* the entry without the negation of the columns 4 .. 7
SeedEntry_NoNegation(i, j) ==
    LET buf == alphaBase[(i - 16) + 1][(3 - (j % 4)) + 1]
    IN  buf

\* alphaTable[i][j] of the first loop of setupAlphaTable
SeedEntry(i, j) ==
    LET buf == alphaBase[(i - 16) + 1][(3 - (j % 4)) + 1]
    IN  IF j < 4 THEN buf ELSE -buf - 1

\* the first loop of setupAlphaTable: rows 16 .. 31
SetupSeedRows(tbl) ==
    [i \in 0 .. 255 |->
        IF i >= 16 /\ i < 32
        THEN <<SeedEntry(i, 0), SeedEntry(i, 1), SeedEntry(i, 2), SeedEntry(i, 3),
               SeedEntry(i, 4), SeedEntry(i, 5), SeedEntry(i, 6), SeedEntry(i, 7)>>
        ELSE tbl[i]]

\* the iteration with the multiplier 1 for every row
SetupRow_NoMultiple(tbl, i) ==
    LET mul == 1
        old == 16 + (i % 16)
        row == tbl[old]
    IN  [tbl EXCEPT ![i] = <<row[1] * mul, row[2] * mul, row[3] * mul, row[4] * mul,
                             row[5] * mul, row[6] * mul, row[7] * mul, row[8] * mul>>]

\* one iteration of the second loop of setupAlphaTable
SetupRow(tbl, i) ==
    LET mul == i \div 16
        old == 16 + (i % 16)
        row == tbl[old]
    IN  [tbl EXCEPT ![i] = <<row[1] * mul, row[2] * mul, row[3] * mul, row[4] * mul,
                             row[5] * mul, row[6] * mul, row[7] * mul, row[8] * mul>>]

RECURSIVE SetupRows(_, _)
\* the iterations st[2] .. last - 1 of the second loop; st = <<alphaTable, i>>
SetupRows(st, last) ==
    IF st[2] >= last THEN st[1]
    ELSE SetupRows(<<SetupRow(st[1], st[2]), st[2] + 1>>, last)

RECURSIVE SetupMultiples(_)
\* the second loop of setupAlphaTable from row st[2] on, sixteen rows at a
\* time; st = <<alphaTable, i>>
SetupMultiples(st) ==
    IF st[2] >= 256 THEN st[1]
    ELSE SetupMultiples(<<SetupRows(st, st[2] + 16), st[2] + 16>>)

\* the table built again at every call
setupAlphaTable_NoGuard(initialized, tbl) ==
    <<1, SetupMultiples(<<SetupSeedRows(tbl), 0>>), TRUE>>

\* setupAlphaTable: <<alphaTableInitialized, alphaTable>> after the call, and
\* whether the call ran the loops that store into alphaTable
setupAlphaTable(initialized, tbl) ==
    IF initialized # 0 THEN <<initialized, tbl, FALSE>>
    ELSE <<1, SetupMultiples(<<SetupSeedRows(tbl), 0>>), TRUE>>

\* setupHistory after an invocation of setupAlphaTable
SetupRecorded(h, wrote) ==
    [writes |-> h.writes + (IF wrote THEN 1 ELSE 0),
     last |-> IF wrote THEN "built" ELSE "noop"]

\* (1 << pos) & input
MaskBit(input, pos) == ((input \div 2^pos) % 2) * 2^pos

\* the bit taken from the other end of the byte
getbit_LowBitFirst(input, frompos, topos) ==
    IF 7 - frompos > topos
    THEN U8(MaskBit(input, 7 - frompos) \div 2^((7 - frompos) - topos))
    ELSE U8(MaskBit(input, 7 - frompos) * 2^(topos - (7 - frompos)))

\* getbit(input, frompos, topos)
getbit(input, frompos, topos) ==
    IF frompos > topos
    THEN U8(MaskBit(input, frompos) \div 2^(frompos - topos))
    ELSE U8(MaskBit(input, frompos) * 2^(topos - frompos))

\* clamp(val)
clamp(val) == IF val < 0 THEN 0 ELSE IF val > 255 THEN 255 ELSE val

RECURSIVE AlphaIndex(_, _, _, _, _)
\* for (bitpos = 0; bitpos < 3; bitpos++) of decompressBlockAlphaC: gives
\* <<index, byte, bit>>; data is the block's 8 bytes, data[byte] is data[byte + 1]
AlphaIndex(data, byte, bit, bitpos, index) ==
    IF bitpos >= 3 THEN <<index, byte, bit>>
    ELSE LET index1 == BitOr(index, getbit(data[byte + 1], 7 - bit, 2 - bitpos))
         IN  IF bit + 1 > 7
             THEN AlphaIndex(data, byte + 1, 0, bitpos + 1, index1)
             ELSE AlphaIndex(data, byte, bit + 1, bitpos + 1, index1)

RECURSIVE AlphaLoopY(_, _, _, _, _, _, _, _, _)
\* for (int y = 0; y < 4; y++) of decompressBlockAlphaC, for one x;
\* st = <<img, y, byte, bit>>, and so is the result
AlphaLoopY(st, x, data, base, width, ix, iy, ch, tbl) ==
    IF st[2] >= 4 THEN st
    ELSE LET r == AlphaIndex(data, st[3], st[4], 0, 0)
             v == U8(clamp(data[1] + tbl[data[2]][r[1] + 1]))
         IN  AlphaLoopY(
                 <<[st[1] EXCEPT ![base + (ix + x + (iy + st[2]) * width) * ch] = v],
                   st[2] + 1, r[2], r[3]>>,
                 x, data, base, width, ix, iy, ch, tbl)

RECURSIVE AlphaLoopX(_, _, _, _, _, _, _, _)
\* for (int x = 0; x < 4; x++) of decompressBlockAlphaC;
\* st = <<img, x, byte, bit>>; base is the offset of the pointer img in the
\* buffer
AlphaLoopX(st, data, base, width, ix, iy, ch, tbl) ==
    IF st[2] >= 4 THEN st[1]
    ELSE LET r == AlphaLoopY(<<st[1], 0, st[3], st[4]>>, st[2], data, base, width,
                             ix, iy, ch, tbl)
         IN  AlphaLoopX(<<r[1], st[2] + 1, r[3], r[4]>>, data, base, width, ix, iy,
                        ch, tbl)

\* decompressBlockAlphaC(data, img + base, width, height, ix, iy, channels)
decompressBlockAlphaC(data, im, base, width, ix, iy, ch, tbl) ==
    AlphaLoopX(<<im, 0, 2, 0>>, data, base, width, ix, iy, ch, tbl)

----------------------------------------------------------------------------
(* KTXUnpackETC *)

\* readBigEndian4byteWord(&block, s) with s = src + off
readBigEndian4byteWord(src, off) ==
    WordOfBytes(src[off + 1], src[off + 2], src[off + 3], src[off + 4])

\* the colour block of lines 2228-2239 decoded into im: the two words read,
\* then decompressBlockETC21BitAlphaC for 1-bit alpha and decompressBlockETC2c
\* otherwise
UnpackColourBlock(im, src, off, width, sx, sy, ch, af) ==
    CHOOSE r \in
        {IF af = "AF_1BIT"
         THEN decompressBlockETC21BitAlphaC(w[1], w[2], <<i, <<>> >>, width,
                                            o[1], o[2], ch).bufs[1]
         ELSE decompressBlockETC2c(w[1], w[2], i, width, o[1], o[2], ch).img :
            w \in {<<readBigEndian4byteWord(src, off),
                     readBigEndian4byteWord(src, off + 4)>>},
            i \in {im}, o \in {<<sx, sy>>}} : TRUE

\* src after the alpha sub-block of a block that starts at off, without the
\* advance of line 2226
ColourOffset_NoAdvance(off, af) == off

\* src after the alpha sub-block of a block that starts at off: src += 8
\* (line 2226) when there is one
ColourOffset(off, af) == IF af = "AF_8BIT" THEN off + 8 ELSE off

\* the reads of one block at (x, y) whose bytes start at off, with the colour
\* words starting at coff: each <<what, x, y, offset, length>>
BlockReads(x, y, off, coff, af) ==
    (IF af = "AF_8BIT" THEN << <<"alpha", x, y, off, 8>> >> ELSE <<>>)
    \o << <<"block_part1", x, y, coff, 4>>, <<"block_part2", x, y, coff + 4, 4>> >>

RECURSIVE UnpackBlocksX(_, _, _, _, _, _, _)
\* for (x = 0; x < width / 4; x++) of lines 2221-2240, for one y;
\* st = <<img, off, x, decoders, srcReads>> with off the number of bytes src
\* has advanced; gives <<img, off, decoders, srcReads>>
UnpackBlocksX(st, y, src, width, ch, af, tbl) ==
    IF st[3] >= width \div 4 THEN <<st[1], st[2], st[4], st[5]>>
    ELSE LET off == ColourOffset(st[2], af)
             a == IF af = "AF_8BIT"
                  THEN decompressBlockAlphaC(SubSeq(src, st[2] + 1, st[2] + 8),
                           st[1], 3, width, 4 * st[3], 4 * y, ch, tbl)
                  ELSE st[1]
             called == (IF af = "AF_8BIT" THEN {"decompressBlockAlphaC"} ELSE {})
                       \cup {IF af = "AF_1BIT" THEN "decompressBlockETC21BitAlphaC"
                             ELSE "decompressBlockETC2c"}
         IN  UnpackBlocksX(<<UnpackColourBlock(a, src, off, width, 4 * st[3],
                                               4 * y, ch, af),
                             off + 8, st[3] + 1, st[4] \cup called,
                             st[5] \o BlockReads(4 * st[3], 4 * y, st[2], off, af)>>,
                           y, src, width, ch, af, tbl)

RECURSIVE UnpackBlocks(_, _, _, _, _, _, _)
\* for (y = 0; y < height / 4; y++) of lines 2220-2241;
\* st = <<img, off, y, decoders, srcReads>>; gives <<img, decoders, srcReads>>
UnpackBlocks(st, src, width, height, ch, af, tbl) ==
    IF st[3] >= height \div 4 THEN <<st[1], st[4], st[5]>>
    ELSE LET Row(r) == UnpackBlocks(<<r[1], r[2], st[3] + 1, r[3], r[4]>>, src,
                                    width, height, ch, af, tbl)
         IN  Row(UnpackBlocksX(<<st[1], st[2], 0, st[4], st[5]>>, st[3], src,
                               width, ch, af, tbl))

\* the copy of the active area with the source row stride of another width
CropImage_ActiveStride(im, aw, ah, width, dstPixelBytes) ==
    LET dstRowBytes == dstPixelBytes * aw
        activeRowBytes == aw * dstPixelBytes
    IN  [i \in 0 .. (dstPixelBytes * aw * ah - 1) |->
            LET yy == i \div activeRowBytes
                xx == (i % activeRowBytes) \div dstPixelBytes
                zz == i % dstPixelBytes
            IN  im[yy * dstRowBytes + xx * dstPixelBytes + zz]]

\* newimg after the copy loops (lines 2264-2272):
\* newimg[yy * activeRowBytes + xx * dstPixelBytes + zz] =
\*     (*dstImage)[yy * dstRowBytes + xx * dstPixelBytes + zz]
CropImage(im, aw, ah, width, dstPixelBytes) ==
    LET dstRowBytes == dstPixelBytes * width
        activeRowBytes == aw * dstPixelBytes
    IN  [i \in 0 .. (dstPixelBytes * aw * ah - 1) |->
            LET yy == i \div activeRowBytes
                xx == (i % activeRowBytes) \div dstPixelBytes
                zz == i % dstPixelBytes
            IN  im[yy * dstRowBytes + xx * dstPixelBytes + zz]]

(* The inputs of the model *)

\* the three formats with a case, and two without: 37494 is
\* GL_COMPRESSED_RGB8_PUNCHTHROUGH_ALPHA1_ETC2 and 37488 GL_COMPRESSED_R11_EAC
UnpackFormats ==
    {GL_ETC1_RGB8_OES, GL_COMPRESSED_RGB8_ETC2, GL_COMPRESSED_RGBA8_ETC2_EAC,
     37494, 37488}

ActiveWidths == 1 .. MaxActiveWidth
ActiveHeights == 1 .. MaxActiveHeight

\* colour blocks: differential with flip, T-mode, Planar, individual
ColourBlocks ==
    << <<136, 252, 136, 119, 165, 195, 60, 90>>,
       <<7, 136, 252, 110, 18, 52, 171, 205>>,
       <<136, 136, 251, 2, 37, 99, 180, 77>>,
       <<18, 52, 86, 248, 255, 0, 15, 240>> >>

\* alpha blocks: base, multiplier and table, 48 index bits
\* the last three clamp at 255, clamp at 0, and have the multiplier 0
AlphaBlocks ==
    << <<128, 29, 18, 52, 86, 120, 154, 188>>,
       <<200, 75, 1, 35, 69, 103, 137, 171>>,
       <<250, 243, 250, 193, 136, 83, 49, 198>>,
       <<10, 243, 5, 57, 119, 199, 36, 108>>,
       <<250, 5, 18, 52, 86, 120, 154, 188>> >>

RECURSIVE SourceBytes(_, _, _, _)
\* the compressed image number k for nblocks blocks
SourceBytes(k, n, nblocks, withAlpha) ==
    IF n >= nblocks THEN <<>>
    ELSE (IF withAlpha THEN AlphaBlocks[((n + k) % Len(AlphaBlocks)) + 1] ELSE <<>>)
         \o ColourBlocks[((n + k) % 4) + 1]
         \o SourceBytes(k, n + 1, nblocks, withAlpha)

Sources(fmt, aw, ah) ==
    {SourceBytes(k, 0, ((aw + 3) \div 4) * ((ah + 3) \div 4),
                 fmt = GL_COMPRESSED_RGBA8_ETC2_EAC) : k \in 0 .. (NumSources - 1)}

(* The state machine *)

UnpackInit ==
    /\ upc = "idle"
    /\ srcETC = <<>>
    /\ srcFormat = 0
    /\ activeWidth = 0
    /\ activeHeight = 0
    /\ dstImage = "prior"
    /\ out_format = "prior"
    /\ out_type = "prior"
    /\ alphaFormat = "AF_NONE"
    /\ dstChannels = 0
    /\ dstChannelBytes = 0
    /\ padded_width = 0
    /\ padded_height = 0
    /\ heap = <<>>
    /\ alphaTableInitialized = 0
    /\ alphaTable = ZeroAlphaTable
    /\ setupHistory = [writes |-> 0, last |-> "none"]
    /\ decoders = {}
    /\ srcReads = <<>>

UnpackThrow == upc' = "thrown"

\* the switch with the case of the punch-through format, which the code has
\* in a comment (lines 2125-2133)
UnpackFormatOf_Punchthrough(fmt) ==
    IF fmt \in {GL_ETC1_RGB8_OES, GL_COMPRESSED_RGB8_ETC2}
    THEN [throws |-> FALSE, dstChannelBytes |-> 1, dstChannels |-> 3,
          format |-> "GL_RGB", type |-> "GL_UNSIGNED_BYTE",
          alphaFormat |-> "AF_NONE"]
    ELSE IF fmt = GL_COMPRESSED_RGBA8_ETC2_EAC
    THEN [throws |-> FALSE, dstChannelBytes |-> 1, dstChannels |-> 4,
          format |-> "GL_RGBA", type |-> "GL_UNSIGNED_BYTE",
          alphaFormat |-> "AF_8BIT"]
    ELSE IF fmt = 37494
    THEN [throws |-> FALSE, dstChannelBytes |-> 1, dstChannels |-> 4,
          format |-> "GL_RGBA", type |-> "GL_UNSIGNED_BYTE",
          alphaFormat |-> "AF_1BIT"]
    ELSE [throws |-> TRUE, dstChannelBytes |-> 0, dstChannels |-> 0,
          format |-> "prior", type |-> "prior", alphaFormat |-> "AF_NONE"]

\* switch (srcFormat), lines 2054-2173: what the case of fmt assigns, or
\* that the default throws
UnpackFormatOf(fmt) ==
    IF fmt \in {GL_ETC1_RGB8_OES, GL_COMPRESSED_RGB8_ETC2}
    THEN [throws |-> FALSE, dstChannelBytes |-> 1, dstChannels |-> 3,
          format |-> "GL_RGB", type |-> "GL_UNSIGNED_BYTE",
          alphaFormat |-> "AF_NONE"]
    ELSE IF fmt = GL_COMPRESSED_RGBA8_ETC2_EAC
    THEN [throws |-> FALSE, dstChannelBytes |-> 1, dstChannels |-> 4,
          format |-> "GL_RGBA", type |-> "GL_UNSIGNED_BYTE",
          alphaFormat |-> "AF_8BIT"]
    ELSE [throws |-> TRUE, dstChannelBytes |-> 0, dstChannels |-> 0,
          format |-> "prior", type |-> "prior", alphaFormat |-> "AF_NONE"]

\* the call: KTXUnpackETC(srcETC, srcFormat, activeWidth, activeHeight,
\* dstImage, format, internal_format, type, R16Formats, supportsSRGB)
KTXUnpackETC_Call ==
    /\ upc \in {"idle", "returned", "thrown"}
    /\ \E fmt \in UnpackFormats, aw \in ActiveWidths, ah \in ActiveHeights :
        \E s \in Sources(fmt, aw, ah) :
            /\ srcFormat' = fmt
            /\ activeWidth' = aw
            /\ activeHeight' = ah
            /\ srcETC' = s
    /\ upc' = "classify"
    /\ dstImage' = "prior"
    /\ out_format' = "prior"
    /\ out_type' = "prior"
    /\ alphaFormat' = "AF_NONE"
    /\ dstChannels' = 0
    /\ dstChannelBytes' = 0
    /\ padded_width' = 0
    /\ padded_height' = 0
    /\ heap' = <<>>
    /\ decoders' = {}
    /\ srcReads' = <<>>
    /\ UNCHANGED <<alphaTableInitialized, alphaTable, setupHistory>>
    /\ UNCHANGED <<loadVars, blockVars>>

\* switch (srcFormat)
KTXUnpackETC_Classify ==
    /\ upc = "classify"
    /\ \E c \in {UnpackFormatOf(srcFormat)} :
        IF c.throws
        THEN /\ UnpackThrow
             /\ UNCHANGED <<dstChannelBytes, dstChannels, out_format, out_type,
                            alphaFormat>>
        ELSE /\ dstChannelBytes' = c.dstChannelBytes
             /\ dstChannels' = c.dstChannels
             /\ out_format' = c.format
             /\ out_type' = c.type
             /\ alphaFormat' = c.alphaFormat
             /\ upc' = "alloc"
    /\ UNCHANGED <<srcETC, srcFormat, activeWidth, activeHeight, dstImage,
                   padded_width, padded_height, heap, alphaTableInitialized,
                   alphaTable, setupHistory, decoders, srcReads>>
    /\ UNCHANGED <<loadVars, blockVars>>

\* width, height and the malloc of the padded image, which may fail
KTXUnpackETC_Alloc ==
    /\ upc = "alloc"
    /\ padded_width' = ((activeWidth + 3) \div 4) * 4
    /\ padded_height' = ((activeHeight + 3) \div 4) * 4
    /\ \/ /\ heap' = Append(heap,
                [bytes |-> FreshImg(padded_width', padded_height',
                                    dstChannels * dstChannelBytes),
                 freed |-> FALSE])
          /\ dstImage' = Len(heap) + 1
          /\ upc' = "decode"
       \/ /\ dstImage' = "null"
          /\ UnpackThrow
          /\ UNCHANGED heap
    /\ UNCHANGED <<srcETC, srcFormat, activeWidth, activeHeight, out_format,
                   out_type, alphaFormat, dstChannels, dstChannelBytes,
                   alphaTableInitialized, alphaTable, setupHistory, decoders,
                   srcReads>>
    /\ UNCHANGED <<loadVars, blockVars>>

\* setupAlphaTable when there is alpha, then the throw for 11-bit alpha or
\* the loops over the blocks
KTXUnpackETC_Decode ==
    /\ upc = "decode"
    /\ \E t \in {IF alphaFormat # "AF_NONE"
                 THEN setupAlphaTable(alphaTableInitialized, alphaTable)
                 ELSE <<alphaTableInitialized, alphaTable, FALSE>>} :
        /\ alphaTableInitialized' = t[1]
        /\ alphaTable' = t[2]
        /\ setupHistory' = IF alphaFormat # "AF_NONE"
                           THEN SetupRecorded(setupHistory, t[3])
                           ELSE setupHistory
        /\ IF alphaFormat = "AF_11BIT"
           THEN /\ UnpackThrow
                /\ UNCHANGED <<heap, decoders, srcReads>>
           ELSE \E r \in {UnpackBlocks(<<heap[dstImage].bytes, 0, 0, decoders,
                                          srcReads>>,
                              srcETC, padded_width, padded_height, dstChannels,
                              alphaFormat, t[2])} :
                    /\ heap' = [heap EXCEPT ![dstImage].bytes = r[1]]
                    /\ decoders' = r[2]
                    /\ srcReads' = r[3]
                    /\ upc' = "crop"
    /\ UNCHANGED <<srcETC, srcFormat, activeWidth, activeHeight, dstImage,
                   out_format, out_type, alphaFormat, dstChannels,
                   dstChannelBytes, padded_width, padded_height>>
    /\ UNCHANGED <<loadVars, blockVars>>

\* the copy of the active pixels, when they differ from the total pixels
KTXUnpackETC_Crop ==
    /\ upc = "crop"
    /\ IF ~(padded_height = activeHeight /\ padded_width = activeWidth)
       THEN \/ /\ heap' = Append([heap EXCEPT ![dstImage].freed = TRUE],
                    [bytes |-> CropImage(heap[dstImage].bytes, activeWidth,
                                         activeHeight, padded_width,
                                         dstChannels * dstChannelBytes),
                     freed |-> FALSE])
               /\ dstImage' = Len(heap) + 1
               /\ upc' = "returned"
            \/ /\ heap' = [heap EXCEPT ![dstImage].freed = TRUE]
               /\ UnpackThrow
               /\ UNCHANGED dstImage
       ELSE /\ upc' = "returned"
            /\ UNCHANGED <<heap, dstImage>>
    /\ UNCHANGED <<srcETC, srcFormat, activeWidth, activeHeight, out_format,
                   out_type, alphaFormat, dstChannels, dstChannelBytes,
                   padded_width, padded_height, alphaTableInitialized, alphaTable,
                   setupHistory, decoders, srcReads>>
    /\ UNCHANGED <<loadVars, blockVars>>

\* a call of setupAlphaTable from outside KTXUnpackETC, between two of its
\* calls
setupAlphaTable_Call ==
    /\ upc \in {"idle", "returned", "thrown"}
    /\ \E t \in {setupAlphaTable(alphaTableInitialized, alphaTable)} :
        /\ alphaTableInitialized' = t[1]
        /\ alphaTable' = t[2]
        /\ setupHistory' = SetupRecorded(setupHistory, t[3])
    /\ UNCHANGED <<upc, srcETC, srcFormat, activeWidth, activeHeight, dstImage,
                   out_format, out_type, alphaFormat, dstChannels,
                   dstChannelBytes, padded_width, padded_height, heap, decoders,
                   srcReads>>
    /\ UNCHANGED <<loadVars, blockVars>>

UnpackNext ==
    \/ setupAlphaTable_Call
    \/ KTXUnpackETC_Call
    \/ KTXUnpackETC_Classify
    \/ KTXUnpackETC_Alloc
    \/ KTXUnpackETC_Decode
    \/ KTXUnpackETC_Crop

----------------------------------------------------------------------------
(* The specifications *)

vars == <<loadVars, blockVars, unpackVars>>

\* LoadKTX
InitLoad == LoadInit /\ BlockIdle /\ UnpackInit
SpecLoad == InitLoad /\ [][LoadNext]_vars

\* decompressBlockETC2c
InitBlock == LoadInit /\ BlockInit /\ UnpackInit
SpecBlock == InitBlock /\ [][BlockNext]_vars

\* decompressBlockETC21BitAlphaC and decompressBlockDifferentialWithAlphaC
InitAlpha == LoadInit /\ AlphaInit /\ UnpackInit
SpecAlpha == InitAlpha /\ [][AlphaNext]_vars

\* KTXUnpackETC
InitUnpack == LoadInit /\ BlockIdle /\ UnpackInit
SpecUnpack == InitUnpack /\ [][UnpackNext]_vars

----------------------------------------------------------------------------
(* Claims about LoadKTX, checked under SpecLoad *)

HeaderRead == header # NoHeader

\* the positions LoadKTX reaches only after the header passed validation
PastValidation == pc \in {"classify", "base_level", "loop", "level_body", "returned"}

\* the positions LoadKTX reaches only after the format was classified
PastClassify == pc \in {"base_level", "loop", "level_body", "returned"}

\* some mip-level size prefix has been read (or its read attempted)
SizePrefixRead == \E i \in 1 .. Len(io) : io[i][1] = "fread_size"

\* the fopen call succeeded
Opened == Len(io) >= 2

NumLevels == header.numberOfMipmapLevels

\* C3: after a successful return, buffers[l] is null below the base level
\* and an allocated buffer from the base level up to N - 1, so that exactly
\* N - base_level buffers are allocated.
C3_BuffersAfterReturn ==
    pc = "returned" =>
        /\ \A l \in Levels :
            l < NumLevels =>
                IF l < base_level THEN buffers[l] = "null" ELSE buffers[l] = "alloc"
        /\ Cardinality({l \in Levels : buffers[l] = "alloc"}) = NumLevels - base_level

C3_Witness ==
    /\ pc = "returned"
    /\ NumLevels = 3
    /\ base_level = 1
    /\ buffers[0] = "null" /\ buffers[1] = "alloc" /\ buffers[2] = "alloc"

\* the five header requirements C5 names
C5_Requirements(h) ==
    /\ h.endianness = 67305985
    /\ h.numberOfArrayElements = 0
    /\ h.numberOfFaces = 1
    /\ h.bytesOfKeyValueData = 0
    /\ h.pixelDepth = 0

\* C5: a header violating one of the five requirements makes LoadKTX throw
\* before any mip-level size prefix is read, and a load past validation
\* satisfies all five.
C5_HeaderValidation ==
    /\ (HeaderRead /\ ~C5_Requirements(header)) =>
            (pc \in {"validate", "thrown"} /\ ~SizePrefixRead)
    /\ PastValidation => C5_Requirements(header)
    /\ SizePrefixRead => C5_Requirements(header)

C5_Witness ==
    /\ pc = "thrown"
    /\ HeaderRead
    /\ header.numberOfFaces = 6
    /\ header.endianness = KTX_ENDIAN_REF
    /\ header.numberOfArrayElements = 0
    /\ header.bytesOfKeyValueData = 0
    /\ header.pixelDepth = 0
    /\ header.pixelWidth > 0 /\ header.pixelHeight > 0
    /\ header.identifier = KTX_IDENTIFIER_REF
    /\ header.glInternalFormat = GL_COMPRESSED_RGB8_ETC2

\* C6: a header whose identifier differs from KTX_IDENTIFIER_REF is
\* rejected: such a load never gets past validation.
C6_BadMagicRejected ==
    (HeaderRead /\ header.identifier # KTX_IDENTIFIER_REF) => ~PastValidation

\* the classification C7 names
C7_Expected(fmt) ==
    CASE fmt = 37492 -> "kETC2_RGB"
      [] fmt = 37496 -> "kETC2_RGBA"
      [] fmt = 36196 -> "kETC1"
      [] OTHER -> "none"

\* C7: exactly the three formats are classified, any other value throws
\* before a mip level is read, and every materialized level's formats
\* entry holds the classified format.
C7_FormatClassification ==
    /\ PastClassify =>
        /\ C7_Expected(header.glInternalFormat) # "none"
        /\ internal_format = C7_Expected(header.glInternalFormat)
    /\ (HeaderRead /\ C7_Expected(header.glInternalFormat) = "none") =>
        (pc \in {"validate", "classify", "thrown"} /\ ~SizePrefixRead)
    /\ \A l \in Levels :
        (buffers[l] = "alloc" \/ formats[l] # PriorFormat) =>
            formats[l] = C7_Expected(header.glInternalFormat)

C7_Witness ==
    /\ pc = "returned"
    /\ header.glInternalFormat = GL_ETC1_RGB8_OES
    /\ NumLevels = 2
    /\ formats[0] = "kETC1" /\ formats[1] = "kETC1"

C7_WitnessReject ==
    /\ pc = "thrown"
    /\ HeaderRead /\ HeaderValid(header)
    /\ header.glInternalFormat = 37494

\* C8: a level is accepted only if its declared length, a 32-bit value, is
\* a multiple of 4; any other length throws, size is left as read (not
\* rounded), and levels below the base level are checked like the others.
C8_AlignmentCheck ==
    /\ pc = "level_body" => U32Mod4(size) = 0
    /\ U32Mod4(size) # 0 => (pc = "thrown" /\ size \in LevelSizes)
    /\ \A l \in Levels : sizes[l] # PriorSize =>
            (U32Mod4(sizes[l]) = 0 /\ sizes[l] \in LevelSizes)

\* a skipped level whose length 2^32 - 1 makes size + 3 wrap is rejected
C8_Witness ==
    /\ pc = "thrown"
    /\ size = U32(65535, 65535)
    /\ level < base_level
    /\ io[Len(io)] = <<"fread_size", level>>

\* C9: when LoadKTX throws while processing level j, no earlier level's
\* slot of buffers[] is left holding an allocated buffer.
C9_NoPartialResults ==
    pc = "thrown" => \A l \in Levels : l < level => buffers[l] # "alloc"

\* C10: whenever control has left LoadKTX after the file was opened, on a
\* return or on a throw, the file handle has been closed.
C10_ClosedOnEveryExit ==
    (pc \in {"returned", "thrown"} /\ Opened) => f = "closed"

----------------------------------------------------------------------------
(* decompressBlockETC2c: what is claimed of it *)

\* the call has returned
Decoded == calls # <<>>

\* the fields of the block in the state, read off its 64 bits
\* bit i of the 64-bit block
BlockBit(i) ==
    LET w == IF i >= 32 THEN block_part1 ELSE block_part2
        h == IF i % 32 >= 16 THEN w[1] ELSE w[2]
    IN  (h \div 2^(i % 16)) % 2

DiffBitOf == BlockBit(33)
FlipBitOf == BlockBit(32)

RECURSIVE Field(_, _)
\* bits hi .. hi-n+1 of the 64-bit block, as a number
Field(hi, n) ==
    IF n = 0 THEN 0 ELSE BlockBit(hi - n + 1) + 2 * Field(hi, n - 1)

\* a 3-bit two's complement delta
Delta3(d) == IF d >= 4 THEN d - 8 ELSE d

\* second = 5-bit base + sign-extended 3-bit delta, for channel k = 0, 1, 2
SecondOf(k) == Field(63 - 8 * k, 5) + Delta3(Field(58 - 8 * k, 3))

OutOfRange(k) == SecondOf(k) < 0 \/ SecondOf(k) > 31

\* the calls the routing rule prescribes for the block in the state
C1_Route ==
    IF DiffBitOf = 0 THEN <<"decompressBlockDiffFlipC">>
    ELSE IF OutOfRange(0) THEN <<"unstuff59bits", "decompressBlockTHUMB59Tc">>
    ELSE IF OutOfRange(1) THEN <<"unstuff58bits", "decompressBlockTHUMB58Hc">>
    ELSE IF OutOfRange(2) THEN <<"unstuff57bits", "decompressBlockPlanar57c">>
    ELSE <<"decompressBlockDiffFlipC">>

\* C1: decompressBlockETC2c calls exactly one block decoder per block: the
\* Individual/Differential decoder when the diff bit is 0; when it is 1, with
\* second = 5-bit base + sign-extended 3-bit delta, T-mode when red is outside
\* [0,31], else H-mode when green is, else Planar when blue is, else the
\* Differential decoder. A block with diff bit 1 and a channel out of range is
\* never decoded as Differential, and T, H and Planar are preceded by their
\* own unstuffing converter (59, 58 and 57 bits).
C1_DispatcherRouting ==
    Decoded =>
        /\ calls = C1_Route
        /\ (DiffBitOf = 1 /\ \E k \in 0 .. 2 : OutOfRange(k))
            => calls # <<"decompressBlockDiffFlipC">>

\* red and green are both out of range and the block went to T-mode
C1_Witness ==
    /\ Decoded
    /\ DiffBitOf = 1
    /\ OutOfRange(0)
    /\ OutOfRange(1)
    /\ calls = <<"unstuff59bits", "decompressBlockTHUMB59Tc">>

\* the byte of channel c of texel (x, y) of the tile
TexelByte(x, y, c) ==
    img[channels * ((starty + y) * BlockImgWidth + (startx + x)) + c]

\* s = 1 for the first sub-block, 2 for the second
SubBlockOf(x, y) ==
    IF (FlipBitOf = 0 /\ x < 2) \/ (FlipBitOf = 1 /\ y < 2) THEN 1 ELSE 2

\* the 2-bit index of texel (x, y): its MSB-plane bit and its LSB-plane bit
IndexOf(x, y) == 2 * BlockBit(16 + 4 * x + y) + BlockBit(4 * x + y)

\* the table of sub-block s
TableOf(s) == 2 * Field(IF s = 1 THEN 39 ELSE 36, 3)

\* the 8-bit base of channel k of sub-block s
BaseOf(s, k) ==
    IF DiffBitOf = 0
    THEN LET v == Field((IF s = 1 THEN 63 ELSE 59) - 8 * k, 4) IN v * 16 + v
    ELSE LET v == IF s = 1 THEN Field(63 - 8 * k, 5) ELSE SecondOf(k)
         IN  ((v * 8) % 256) + (v \div 4)

C2_Clamp(v) == IF v < 0 THEN 0 ELSE IF v > 255 THEN 255 ELSE v

C2_Expected(x, y, k) ==
    LET s == SubBlockOf(x, y)
    IN  C2_Clamp(BaseOf(s, k)
                 + compressParams[TableOf(s) + 1][unscramble[IndexOf(x, y) + 1] + 1])

\* the block of the example: diff bit 0, both base colours (8,8,8), table
\* selector 0 for both sub-blocks, every texel selecting table entry 0
C2_GrayBlock ==
    /\ DiffBitOf = 0
    /\ \A k \in 0 .. 2 : Field(63 - 8 * k, 4) = 8 /\ Field(59 - 8 * k, 4) = 8
    /\ Field(39, 3) = 0
    /\ Field(36, 3) = 0
    /\ \A x, y \in 0 .. 3 : unscramble[IndexOf(x, y) + 1] = 0

\* C2: for every block decoded by decompressBlockDiffFlipC and every texel
\* (x,y) of the tile, each written channel equals clamp(base[s][channel] +
\* compressParams[table[s]][unscramble[i]], 0, 255), with s the texel's
\* sub-block (first iff flip=0 and x<2, or flip=1 and y<2), i its 2-bit index
\* from the MSB and LSB planes, and base the 4-bit colour as (v<<4)|v when the
\* diff bit is 0, or the 5-bit colour (second = base + delta) as
\* (v<<3)|(v>>2) when it is 1. The block with diff bit 0, both base colours
\* (8,8,8), table selector 0 and every texel selecting entry 0 decodes to 16
\* texels of 128 on every channel.
C2_DiffFlipTexels ==
    (calls = <<"decompressBlockDiffFlipC">>) =>
        /\ \A x, y \in 0 .. 3 : \A k \in 0 .. 2 :
            TexelByte(x, y, k) = C2_Expected(x, y, k)
        /\ C2_GrayBlock =>
            \A x, y \in 0 .. 3 : \A k \in 0 .. 2 : TexelByte(x, y, k) = 128

\* a differential block (diff bit 1, second colour in range, below the first)
\* with flip = 1 and mixed indices has been decoded
C2_Witness ==
    /\ calls = <<"decompressBlockDiffFlipC">>
    /\ DiffBitOf = 1
    /\ FlipBitOf = 1
    /\ SecondOf(0) < Field(63, 5)
    /\ \E x, y \in 0 .. 3 : IndexOf(x, y) # IndexOf(0, 0)
    /\ TexelByte(3, 3, 0) = C2_Expected(3, 3, 0)

\* the example block has been decoded
C2_WitnessGray ==
    /\ calls = <<"decompressBlockDiffFlipC">>
    /\ C2_GrayBlock
    /\ TexelByte(0, 0, 0) = 128

----------------------------------------------------------------------------
(* Claims about KTXUnpackETC, checked under SpecUnpack *)

Returned == upc = "returned"

NeedsCrop == activeWidth % 4 # 0 \/ activeHeight % 4 # 0

\* byte z of pixel (x, y) of an image rowPixels pixels wide
PixelByte(bytes, rowPixels, x, y, z) ==
    bytes[(y * rowPixels + x) * (dstChannels * dstChannelBytes) + z]

ByteCount(bytes) == Cardinality(DOMAIN bytes)

\* C4: for every active width W and height H where W or H is not a multiple
\* of 4, the buffer KTXUnpackETC returns has exactly
\* W*H*channels*channelBytes bytes and its pixel (x,y), for x<W and y<H,
\* equals pixel (x,y) of the padded decode, whose row stride is the padded
\* width; when W and H are both multiples of 4 the padded buffer itself is
\* returned and no second buffer is allocated.
C4_Cropping ==
    Returned =>
        IF NeedsCrop
        THEN /\ Len(heap) = 2
             /\ dstImage = 2
             /\ ByteCount(heap[2].bytes)
                    = activeWidth * activeHeight * dstChannels * dstChannelBytes
             /\ \A x \in 0 .. (activeWidth - 1), y \in 0 .. (activeHeight - 1) :
                    \A z \in 0 .. (dstChannels * dstChannelBytes - 1) :
                        PixelByte(heap[2].bytes, activeWidth, x, y, z)
                            = PixelByte(heap[1].bytes,
                                        ((activeWidth + 3) \div 4) * 4, x, y, z)
        ELSE /\ Len(heap) = 1
             /\ dstImage = 1

\* a 6 x 5 RGBA image has been cropped out of its 8 x 8 decode, every byte of
\* it written by a decoder and its rows 0 and 1 different
C4_Witness ==
    /\ Returned
    /\ activeWidth = 6
    /\ activeHeight = 5
    /\ srcFormat = GL_COMPRESSED_RGBA8_ETC2_EAC
    /\ dstImage = 2
    /\ \A i \in DOMAIN heap[2].bytes : heap[2].bytes[i] # Unwritten
    /\ \E x \in 0 .. 5, z \in 0 .. 3 :
            PixelByte(heap[2].bytes, 6, x, 0, z) # PixelByte(heap[2].bytes, 6, x, 1, z)

\* a 4 x 4 image has been returned in the buffer it was decoded into
C4_WitnessUncropped ==
    /\ Returned
    /\ activeWidth = 4
    /\ activeHeight = 4
    /\ dstImage = 1
    /\ \A i \in DOMAIN heap[1].bytes : i % dstChannels < 3 => heap[1].bytes[i] # Unwritten

----------------------------------------------------------------------------
(* More claims about LoadKTX, checked under SpecLoad *)

\* C11: after a successful LoadKTX of a file declaring at least one mip
\* level, *base_level is the index of the first materialized level:
\* *base_level < numberOfMipmapLevels, buffers[*base_level] is non-null, and
\* every lower level is skipped.
C11_BaseLevelMaterialized ==
    (pc = "returned" /\ NumLevels >= 1) =>
        /\ base_level < NumLevels
        /\ buffers[base_level] = "alloc"
        /\ \A l \in Levels : l < base_level => buffers[l] = "null"

----------------------------------------------------------------------------
(* The tile a block call writes, checked under SpecBlock *)

\* byte i of the destination buffer is the R, G or B byte of a texel of the
\* 4x4 tile at (startx, starty)
InTileRGB(i) ==
    LET texel == i \div channels
        x == texel % BlockImgWidth
        y == texel \div BlockImgWidth
    IN  /\ i % channels < 3
        /\ x >= startx /\ x < startx + 4
        /\ y >= starty /\ y < starty + 4

\* C13: for every block and tile origin, decompressBlockETC2c (and through it
\* decompressBlockDiffFlipC and decompressBlockPlanar57c) writes the R, G and
\* B bytes of all 16 texels of the 4x4 tile at (startx, starty) and writes no
\* byte of any texel outside that tile.
C13_TileWritten ==
    Decoded =>
        \A i \in DOMAIN img :
            LET texel == i \div channels
                x == texel % BlockImgWidth
                y == texel \div BlockImgWidth
                inTile == /\ x >= startx /\ x < startx + 4
                          /\ y >= starty /\ y < starty + 4
            IN  /\ InTileRGB(i) => img[i] # Unwritten
                /\ ~inTile => img[i] = Unwritten

\* a Planar block decoded at (4, 4) of an RGBA image: the tile's corners are
\* written and the texels before and after the tile are not
C13_Witness ==
    /\ Decoded
    /\ calls = <<"unstuff57bits", "decompressBlockPlanar57c">>
    /\ startx = 4 /\ starty = 4 /\ channels = 4
    /\ TexelByte(0, 0, 0) # Unwritten
    /\ TexelByte(3, 3, 2) # Unwritten
    /\ img[0] = Unwritten
    /\ img[channels * (4 * BlockImgWidth + 3)] = Unwritten

\* a differential block decoded at (0, 0) of an RGB image
C13_WitnessDiffFlip ==
    /\ Decoded
    /\ calls = <<"decompressBlockDiffFlipC">>
    /\ startx = 0 /\ starty = 0 /\ channels = 3
    /\ TexelByte(3, 3, 2) # Unwritten
    /\ TexelByte(4, 0, 0) = Unwritten

----------------------------------------------------------------------------
(* Planar mode, checked under SpecBlock *)

PlanarCalled == calls = <<"unstuff57bits", "decompressBlockPlanar57c">>

\* the two words handed to decompressBlockPlanar57c
PlanarWords == unstuff57bits(block_part1, block_part2)

\* a 6-bit value as (v << 2) | (v >> 4), a 7-bit value as (v << 1) | (v >> 6)
C14_Six(v) == ((v * 4) % 256) + (v \div 16)
C14_Seven(v) == ((v * 2) % 256) + (v \div 64)

\* the corner colours O, H and V of a block, expanded to 8 bits, read off the
\* two words w handed to the decoder
C14_O(w) ==
    <<C14_Six(GETBITSHIGH(w[1], 6, 63)),
      C14_Seven(GETBITSHIGH(w[1], 7, 57)),
      C14_Six(GETBITSHIGH(w[1], 6, 50))>>
C14_H(w) ==
    <<C14_Six(GETBITSHIGH(w[1], 6, 44)),
      C14_Seven(GETBITSHIGH(w[1], 7, 38)),
      C14_Six(GETBITS(w[2], 6, 31))>>
C14_V(w) ==
    <<C14_Six(GETBITS(w[2], 6, 25)),
      C14_Seven(GETBITS(w[2], 7, 19)),
      C14_Six(GETBITS(w[2], 6, 12))>>

\* floor((x*(H-O) + y*(V-O) + 4*O + 2) / 4) for one channel with corner
\* values o, h and v
C14_Raw(x, y, o, h, v) == (x * (h - o) + y * (v - o) + 4 * o + 2) \div 4

C14_Expected(x, y, o, h, v) ==
    LET raw == C14_Raw(x, y, o, h, v)
    IN  IF raw < 0 THEN 0 ELSE IF raw > 255 THEN 255 ELSE raw

\* C14: decompressBlockPlanar57c sets every channel of every texel (x, y) of
\* the tile to clamp(floor((x*(H-O) + y*(V-O) + 4*O + 2) / 4), 0, 255), where
\* O, H and V are the corner values expanded to 8 bits (6 bits as
\* (v<<2)|(v>>4), the 7-bit green as (v<<1)|(v>>6)); a block whose three
\* corners are the same colour decodes to 16 texels of that colour.
C14_PlanarInterpolation ==
    (Decoded /\ PlanarCalled) =>
        \E o \in {C14_O(PlanarWords)}, h \in {C14_H(PlanarWords)},
           v \in {C14_V(PlanarWords)} :
            /\ \A x \in 0 .. 3, y \in 0 .. 3, k \in 1 .. 3 :
                   TexelByte(x, y, k - 1) = C14_Expected(x, y, o[k], h[k], v[k])
            /\ (o = h /\ o = v) =>
                   \A x \in 0 .. 3, y \in 0 .. 3, k \in 1 .. 3 :
                       TexelByte(x, y, k - 1) = o[k]

\* the block with the three corners (33, 70, 12) decodes to 16 texels of the
\* colour (134, 141, 48)
C14_Witness ==
    /\ Decoded /\ PlanarCalled
    /\ C14_O(PlanarWords) = <<134, 141, 48>>
    /\ C14_H(PlanarWords) = <<134, 141, 48>>
    /\ C14_V(PlanarWords) = <<134, 141, 48>>
    /\ \A x \in 0 .. 3, y \in 0 .. 3 :
           /\ TexelByte(x, y, 0) = 134
           /\ TexelByte(x, y, 1) = 141
           /\ TexelByte(x, y, 2) = 48

\* a block whose corners differ, with a texel clamped at 0, one clamped at
\* 255 and one strictly between, different from its origin corner
C14_WitnessClamped ==
    /\ Decoded /\ PlanarCalled
    /\ \E o \in {C14_O(PlanarWords)}, h \in {C14_H(PlanarWords)},
          v \in {C14_V(PlanarWords)} :
           /\ \E x \in 0 .. 3, y \in 0 .. 3, k \in 1 .. 3 :
                  C14_Raw(x, y, o[k], h[k], v[k]) < 0
           /\ \E x \in 0 .. 3, y \in 0 .. 3, k \in 1 .. 3 :
                  C14_Raw(x, y, o[k], h[k], v[k]) > 255
           /\ \E x \in 0 .. 3, y \in 0 .. 3, k \in 1 .. 3 :
                  /\ C14_Raw(x, y, o[k], h[k], v[k]) > 0
                  /\ C14_Raw(x, y, o[k], h[k], v[k]) < 255
                  /\ C14_Raw(x, y, o[k], h[k], v[k]) # o[k]

----------------------------------------------------------------------------
(* The alpha table, checked under SpecUnpack *)

\* seed8[r][j]: alphaBase[r][3-j] for j < 4, -alphaBase[r][3-(j mod 4)] - 1
\* for j >= 4
Seed8(r, j) ==
    IF j < 4 THEN alphaBase[r + 1][(3 - j) + 1]
    ELSE -alphaBase[r + 1][(3 - (j % 4)) + 1] - 1

\* C15: after setupAlphaTable has run, alphaTable[i][j] =
\* seed8[i mod 16][j] * (i div 16) for every row i in 16..255 and every column
\* j in 0..7, where seed8[r][j] = alphaBase[r][3-j] for j < 4 and
\* -alphaBase[r][3-(j mod 4)] - 1 for j >= 4.
C15_TableMultiples ==
    alphaTableInitialized # 0 =>
        \A i \in 16 .. 255, j \in 0 .. 7 :
            alphaTable[i][j + 1] = Seed8(i % 16, j) * (i \div 16)

\* the table is built: row 16 starts with alphaBase[0][3] = -3, and the last
\* entry is 15 * (-alphaBase[15][0] - 1) = 15 * 8
C15_Witness ==
    /\ alphaTableInitialized = 1
    /\ alphaTable[16][1] = -3
    /\ alphaTable[77][8] = 4 * 9
    /\ alphaTable[255][8] = 120

\* C20: after setupAlphaTable has run, the rows 0..15 of alphaTable hold the
\* seed values copied and negated from alphaBase: alphaTable[i][j] =
\* alphaBase[i][3-j] for j < 4 and -alphaBase[i][3-(j mod 4)] - 1 for j >= 4.
C20_FirstRowsHoldSeed ==
    alphaTableInitialized # 0 =>
        \A i \in 0 .. 15, j \in 0 .. 7 : alphaTable[i][j + 1] = Seed8(i, j)

\* C20, as the code has it: after setupAlphaTable has run, the seed values
\* are in the rows 16..31 (alphaTable[16 + i][j] = alphaBase[i][3-j] for j < 4
\* and -alphaBase[i][3-(j mod 4)] - 1 for j >= 4, for i in 0..15), and every
\* entry of the rows 0..15, whose multiplier i div 16 is 0, is 0.
C20_SeedRowsFrom16 ==
    alphaTableInitialized # 0 =>
        \A i \in 0 .. 15, j \in 0 .. 7 :
            /\ alphaTable[16 + i][j + 1] = Seed8(i, j)
            /\ alphaTable[i][j + 1] = 0

\* the table is built, row 0 is zero where the seed is not, and row 29 has the
\* seed row 13 = (-1, -2, -3, -10, 0, 1, 2, 9)
C20_Witness ==
    /\ alphaTableInitialized = 1
    /\ alphaTable[0] = <<0, 0, 0, 0, 0, 0, 0, 0>>
    /\ Seed8(0, 0) = -3
    /\ alphaTable[29] = <<-1, -2, -3, -10, 0, 1, 2, 9>>

\* the padded image has been decoded and not yet cropped
BlocksDecoded == upc = "crop"

\* the 8 bytes of the alpha block of block (bx, by) of an RGBA8 EAC image:
\* 16 bytes per block, rows of padded_width / 4 blocks
AlphaDataOf(bx, by) ==
    LET n == by * (padded_width \div 4) + bx
    IN  SubSeq(srcETC, 16 * n + 1, 16 * n + 8)

\* bit b of the 48-bit string of the bytes 2..7 of data, most significant bit
\* of byte 2 first
C18_Bit(data, b) == (data[3 + (b \div 8)] \div 2^(7 - (b % 8))) % 2

\* the 3-bit index of texel number k = 4*x + y
C18_Index(data, k) ==
    4 * C18_Bit(data, 3 * k) + 2 * C18_Bit(data, 3 * k + 1)
        + C18_Bit(data, 3 * k + 2)

C18_Clamp(v) == IF v < 0 THEN 0 ELSE IF v > 255 THEN 255 ELSE v

\* the alpha byte of texel (x, y) of block (bx, by) in the padded RGBA image
AlphaByte(bx, by, x, y) ==
    heap[dstImage].bytes[((4 * bx + x) + (4 * by + y) * padded_width) * 4 + 3]

\* C18: decompressBlockAlphaC gives texel (x, y) of the tile, with k = 4*x + y,
\* the 3-bit index made of bits 3k..3k+2 of the 48-bit string of the bytes
\* 2..7 read most significant bit first, and writes
\* clamp(data[0] + alphaTable[data[1]][index], 0, 255), which is
\* data[0] + (data[1] div 16) * seed8[data[1] mod 16][index] clamped; it reads
\* only the bytes 0..7 of the block.
C18_AlphaBlock ==
    (BlocksDecoded /\ alphaFormat = "AF_8BIT") =>
        \A bx \in 0 .. ((padded_width \div 4) - 1),
           by \in 0 .. ((padded_height \div 4) - 1) :
            \E data \in {AlphaDataOf(bx, by)} :
                /\ Len(data) = 8
                /\ \A x \in 0 .. 3, y \in 0 .. 3 :
                    \E index \in {C18_Index(data, 4 * x + y)} :
                        /\ AlphaByte(bx, by, x, y) =
                               C18_Clamp(data[1] + alphaTable[data[2]][index + 1])
                        /\ AlphaByte(bx, by, x, y) =
                               C18_Clamp(data[1] + (data[2] \div 16)
                                            * Seed8(data[2] % 16, index))

\* a block with base 250 and multiplier 15 decoded with a texel clamped at
\* 255 and a texel below 250, and the texel (1, 2) of the first block of the
\* image read from the bits 18..20 of its index string
C18_Witness ==
    /\ BlocksDecoded /\ alphaFormat = "AF_8BIT"
    /\ \E bx \in 0 .. ((padded_width \div 4) - 1),
          by \in 0 .. ((padded_height \div 4) - 1) :
           /\ AlphaDataOf(bx, by)[1] = 250
           /\ AlphaDataOf(bx, by)[2] = 243
           /\ \E x \in 0 .. 3, y \in 0 .. 3 : AlphaByte(bx, by, x, y) = 255
           /\ \E x \in 0 .. 3, y \in 0 .. 3 : AlphaByte(bx, by, x, y) < 250
    /\ AlphaByte(0, 0, 1, 2) =
           C18_Clamp(srcETC[1] + alphaTable[srcETC[2]]
                                     [C18_Index(AlphaDataOf(0, 0), 6) + 1])

\* blocks clamped at 0 and blocks with the multiplier 0, every texel at the base
C18_WitnessFlat ==
    /\ BlocksDecoded /\ alphaFormat = "AF_8BIT"
    /\ \E bx \in 0 .. ((padded_width \div 4) - 1),
          by \in 0 .. ((padded_height \div 4) - 1) :
           /\ AlphaDataOf(bx, by)[2] = 5
           /\ \A x \in 0 .. 3, y \in 0 .. 3 : AlphaByte(bx, by, x, y) = 250
    /\ \E bx \in 0 .. ((padded_width \div 4) - 1),
          by \in 0 .. ((padded_height \div 4) - 1) :
           /\ AlphaDataOf(bx, by)[1] = 10
           /\ \E x \in 0 .. 3, y \in 0 .. 3 : AlphaByte(bx, by, x, y) = 0

\* C16: the alpha table is built once and then read-only: over any sequence
\* of KTXUnpackETC and setupAlphaTable calls, entries of alphaTable are
\* written only during the first setupAlphaTable invocation; every later
\* invocation leaves all 256x8 entries unchanged, and block decoding never
\* writes the table.
C16_BuiltOnce ==
    /\ [](setupHistory.writes = 0 => alphaTable = ZeroAlphaTable)
    /\ [][ /\ alphaTableInitialized # 0 =>
                /\ alphaTable' = alphaTable
                /\ setupHistory'.writes = setupHistory.writes
           /\ (alphaTable' # alphaTable \/ setupHistory'.writes # setupHistory.writes)
                => /\ alphaTableInitialized = 0
                   /\ setupHistory.writes = 0
                   /\ setupHistory'.writes = 1
                   /\ setupHistory'.last = "built" ]_vars

\* the table is built and a later invocation of setupAlphaTable, by the
\* decoding of an RGBA8 EAC image, has returned without storing into it
C16_Witness ==
    /\ alphaTableInitialized = 1
    /\ setupHistory = [writes |-> 1, last |-> "noop"]
    /\ alphaTable[255][8] = 120
    /\ upc = "crop"
    /\ alphaFormat = "AF_8BIT"

----------------------------------------------------------------------------
(* The punch-through decoders, checked under SpecAlpha *)

\* the alpha byte of texel (x, y) of the tile: in the separate buffer, one
\* byte per texel, when channels = 3, else byte 3 of the RGBA texel of img
AlphaOf(x, y) ==
    IF channels = 3
    THEN alpha[(starty + y) * BlockImgWidth + (startx + x)]
    ELSE img[4 * ((starty + y) * BlockImgWidth + (startx + x)) + 3]

\* the index of texel (x, y) that selects the entry of the modifier table
ModifierIndexOf(x, y) == unscramble[IndexOf(x, y) + 1]

\* texel (x, y) is a punch-through texel
C17_Transparent(x, y) == DiffBitOf = 0 /\ ModifierIndexOf(x, y) = 1

\* texel number t of the image lies in the tile
C17_InTile(t) ==
    /\ t % BlockImgWidth >= startx /\ t % BlockImgWidth < startx + 4
    /\ t \div BlockImgWidth >= starty /\ t \div BlockImgWidth < starty + 4

\* C17: in decompressBlockDifferentialWithAlphaC, for every block and texel:
\* if the diff bit is 0 and the texel's 2-bit index (the one that selects the
\* modifier-table entry) is 1, the texel's colour is written as (0,0,0) and
\* its alpha as 0; every other texel of the tile gets alpha 255. With
\* channelsRGB = 3 the alpha goes to the separate alpha buffer, one byte per
\* texel; otherwise it is byte 3 of each RGBA texel of img.
C17_PunchThroughTexels ==
    (Decoded /\ calls = <<"decompressBlockDifferentialWithAlphaC">>) =>
        /\ \A x \in 0 .. 3, y \in 0 .. 3 :
            IF C17_Transparent(x, y)
            THEN /\ TexelByte(x, y, 0) = 0
                 /\ TexelByte(x, y, 1) = 0
                 /\ TexelByte(x, y, 2) = 0
                 /\ AlphaOf(x, y) = 0
            ELSE AlphaOf(x, y) = 255
        /\ channels = 3 =>
            \A t \in DOMAIN alpha : ~C17_InTile(t) => alpha[t] = Unwritten
        /\ channels # 3 =>
            /\ \A t \in DOMAIN alpha : alpha[t] = Unwritten
            /\ \A i \in DOMAIN img :
                   ~C17_InTile(i \div 4) => img[i] = Unwritten

\* a direct call with the diff bit 0 and separate buffers: a punch-through
\* texel and an opaque texel with a colour
C17_Witness ==
    /\ Decoded
    /\ entry = "decompressBlockDifferentialWithAlphaC"
    /\ DiffBitOf = 0
    /\ channels = 3
    /\ \E x \in 0 .. 3, y \in 0 .. 3 :
           /\ C17_Transparent(x, y)
           /\ AlphaOf(x, y) = 0
           /\ TexelByte(x, y, 0) = 0
    /\ \E x \in 0 .. 3, y \in 0 .. 3 :
           /\ ~C17_Transparent(x, y)
           /\ AlphaOf(x, y) = 255
           /\ TexelByte(x, y, 0) > 0

\* the same with interleaved RGBA, and a block with the diff bit 1 whose
\* texels of index 1 are opaque
C17_WitnessInterleaved ==
    /\ Decoded
    /\ entry = "decompressBlockDifferentialWithAlphaC"
    /\ channels = 4
    /\ \/ /\ DiffBitOf = 0
          /\ \E x \in 0 .. 3, y \in 0 .. 3 :
                 C17_Transparent(x, y) /\ AlphaOf(x, y) = 0
       \/ /\ DiffBitOf = 1
          /\ \E x \in 0 .. 3, y \in 0 .. 3 :
                 ModifierIndexOf(x, y) = 1 /\ AlphaOf(x, y) = 255

\* the call of decompressBlockETC21BitAlphaC has returned
Dispatched1BitAlpha == Decoded /\ entry = "decompressBlockETC21BitAlphaC"

\* C19: in decompressBlockETC21BitAlphaC every block whose diff bit is 0 is
\* routed to decompressBlockDifferentialWithAlphaC, never to a T, H or Planar
\* decoder.
C19_TransparentToDifferential ==
    (Dispatched1BitAlpha /\ DiffBitOf = 0) =>
        calls = <<"decompressBlockDifferentialWithAlphaC">>

\* C19, as the code has it: a block whose diff bit is 0 is routed by the
\* range of base + delta like an opaque block: to the T decoder with alpha
\* when red is outside [0,31], else to the H decoder with alpha when green
\* is, else to the Planar decoder when blue is, and to
\* decompressBlockDifferentialWithAlphaC only when no channel is out of
\* range; it never reaches the T and H decoders without alpha.
C19_TransparentRouting ==
    (Dispatched1BitAlpha /\ DiffBitOf = 0) =>
        /\ calls =
             IF OutOfRange(0)
             THEN <<"unstuff59bits", "decompressBlockTHUMB59TAlphaC">>
             ELSE IF OutOfRange(1)
             THEN <<"unstuff58bits", "decompressBlockTHUMB58HAlphaC">>
             ELSE IF OutOfRange(2)
             THEN <<"unstuff57bits", "decompressBlockPlanar57c">>
             ELSE <<"decompressBlockDifferentialWithAlphaC">>
        /\ calls \notin {<<"unstuff59bits", "decompressBlockTHUMB59Tc">>,
                         <<"unstuff58bits", "decompressBlockTHUMB58Hc">>}

\* a block with the diff bit 0 and red out of range went to the T decoder
\* with alpha, which made a texel transparent
C19_Witness ==
    /\ Dispatched1BitAlpha
    /\ DiffBitOf = 0
    /\ OutOfRange(0)
    /\ calls = <<"unstuff59bits", "decompressBlockTHUMB59TAlphaC">>
    /\ \E x \in 0 .. 3, y \in 0 .. 3 : AlphaOf(x, y) = 0

\* a block with the diff bit 0 and no channel out of range went to the
\* differential decoder with alpha
C19_WitnessDifferential ==
    /\ Dispatched1BitAlpha
    /\ DiffBitOf = 0
    /\ ~OutOfRange(0) /\ ~OutOfRange(1) /\ ~OutOfRange(2)
    /\ calls = <<"decompressBlockDifferentialWithAlphaC">>

----------------------------------------------------------------------------
(* The formats of KTXUnpackETC, checked under SpecUnpack *)

\* ETC1 RGB8 (0x8D64), ETC2 RGB8 (0x9274) and ETC2 RGBA8 EAC (0x9278)
C12_Supported == {36196, 37492, 37496}

\* C12: KTXUnpackETC raises an error for every srcFormat other than ETC1 RGB8
\* (0x8D64), ETC2 RGB8 (0x9274) and ETC2 RGBA8 EAC (0x9278) before allocating
\* any buffer and without writing *dstImage, *format or *type; for no input
\* does it invoke the 1-bit punch-through decoder or the 11-bit alpha decoder.
C12_UnsupportedFormatRejected ==
    /\ (upc # "idle" /\ srcFormat \notin C12_Supported) =>
        /\ upc \in {"classify", "thrown"}
        /\ heap = <<>>
        /\ dstImage = "prior"
        /\ out_format = "prior"
        /\ out_type = "prior"
        /\ decoders = {}
    /\ (upc \in {"returned", "crop", "decode", "alloc"}) =>
        srcFormat \in C12_Supported
    /\ alphaFormat \in {"AF_NONE", "AF_8BIT"}
    /\ decoders \subseteq {"decompressBlockAlphaC", "decompressBlockETC2c"}

\* the call with the punch-through format has thrown, with nothing allocated
\* and nothing written
C12_Witness ==
    /\ upc = "thrown"
    /\ srcFormat = 37494
    /\ heap = <<>>
    /\ dstImage = "prior"
    /\ out_format = "prior"

\* an RGBA8 EAC image has been decoded by the 8-bit alpha decoder and the
\* colour decoder alone
C12_WitnessDecoders ==
    /\ upc = "returned"
    /\ srcFormat = 37496
    /\ decoders = {"decompressBlockAlphaC", "decompressBlockETC2c"}

----------------------------------------------------------------------------
(* T mode and H mode, checked under SpecBlock *)

THUMB59TCalled == calls = <<"unstuff59bits", "decompressBlockTHUMB59Tc">>
THUMB58HCalled == calls = <<"unstuff58bits", "decompressBlockTHUMB58Hc">>

\* bit i (0 .. 31) of a word
C21_WordBit(w, i) ==
    (IF i >= 16 THEN w[1] \div 2^(i - 16) ELSE w[2] \div 2^i) % 2

\* the 4-bit field of the high word w1 whose top bit is bit top (32 .. 63)
C21_Nibble(w1, top) ==
    8 * C21_WordBit(w1, top - 32) + 4 * C21_WordBit(w1, top - 33)
    + 2 * C21_WordBit(w1, top - 34) + C21_WordBit(w1, top - 35)

\* a 4-bit value expanded as (v << 4) | v
C21_Expand(v) == 16 * v + v

\* the colour whose red field has its top bit at bit top, green and blue
\* following in the next two nibbles
C21_Colour(w1, top) ==
    <<C21_Expand(C21_Nibble(w1, top)), C21_Expand(C21_Nibble(w1, top - 4)),
      C21_Expand(C21_Nibble(w1, top - 8))>>

\* m = 2*bit(16 + 4x + y) + bit(4x + y) of the low word
C21_Mask(w2, x, y) ==
    2 * C21_WordBit(w2, 16 + 4 * x + y) + C21_WordBit(w2, 4 * x + y)

C21_Clamp(v) == IF v < 0 THEN 0 ELSE IF v > 255 THEN 255 ELSE v

C21_Distances == <<3, 6, 11, 16, 23, 32, 41, 64>>

\* the 3-bit distance index at bits 34..32
C21_DistanceIndex(w1) ==
    4 * C21_WordBit(w1, 2) + 2 * C21_WordBit(w1, 1) + C21_WordBit(w1, 0)

\* channel k of the paint colour m of a T block
C21_Paint(m, c0, c1, d, k) ==
    IF m = 0 THEN c0[k]
    ELSE IF m = 1 THEN C21_Clamp(c1[k] + d)
    ELSE IF m = 2 THEN c1[k]
    ELSE C21_Clamp(c1[k] - d)

\* the two words handed to decompressBlockTHUMB59Tc
THUMB59TWords == unstuff59bits(block_part1, block_part2)

\* C21: decompressBlockTHUMB59Tc writes each texel (x, y) of the tile with
\* the paint colour its 2-bit mask m = 2*bit(16+4x+y) + bit(4x+y) of the low
\* word selects: color0 for 0, clamp(color1 + d) for 1, color1 for 2 and
\* clamp(color1 - d) for 3, per channel, where color0 and color1 are the two
\* 4-bit colours expanded as (v<<4)|v and d = table59T[distance index]; no
\* other modifier is applied.
C21_TPaintColours ==
    (Decoded /\ THUMB59TCalled) =>
        \E w \in {THUMB59TWords} :
            \E c0 \in {C21_Colour(w[1], 58)}, c1 \in {C21_Colour(w[1], 46)},
               d \in {C21_Distances[C21_DistanceIndex(w[1]) + 1]} :
                \A x \in 0 .. 3, y \in 0 .. 3, k \in 1 .. 3 :
                    TexelByte(x, y, k - 1)
                        = C21_Paint(C21_Mask(w[2], x, y), c0, c1, d, k)

\* a T block whose texels use all four masks, with color1 + d clamped at 255
\* on a texel and color0 different from color1
C21_Witness ==
    /\ Decoded /\ THUMB59TCalled
    /\ \E w \in {THUMB59TWords} :
           \E c0 \in {C21_Colour(w[1], 58)}, c1 \in {C21_Colour(w[1], 46)},
              d \in {C21_Distances[C21_DistanceIndex(w[1]) + 1]} :
               /\ c0 # c1
               /\ \A m \in 0 .. 3 :
                      \E x \in 0 .. 3, y \in 0 .. 3 : C21_Mask(w[2], x, y) = m
               /\ \E x \in 0 .. 3, y \in 0 .. 3, k \in 1 .. 3 :
                      /\ C21_Mask(w[2], x, y) = 1
                      /\ c1[k] + d > 255
                      /\ TexelByte(x, y, k - 1) = 255

\* the distance index of an H block: 2 * (the field at bits 33..32) + the
\* comparison of the packed colours at bits 57..46 and 45..34
C22_DistanceIndex(w1) ==
    LET stored == 2 * C21_WordBit(w1, 1) + C21_WordBit(w1, 0)
        col0 == 256 * C21_Nibble(w1, 57) + 16 * C21_Nibble(w1, 53)
                + C21_Nibble(w1, 49)
        col1 == 256 * C21_Nibble(w1, 45) + 16 * C21_Nibble(w1, 41)
                + C21_Nibble(w1, 37)
    IN  2 * stored + (IF col0 >= col1 THEN 1 ELSE 0)

\* channel k of the paint colour m of an H block
C22_Paint(m, c0, c1, d, k) ==
    IF m = 0 THEN C21_Clamp(c0[k] + d)
    ELSE IF m = 1 THEN C21_Clamp(c0[k] - d)
    ELSE IF m = 2 THEN C21_Clamp(c1[k] + d)
    ELSE C21_Clamp(c1[k] - d)

\* the two words handed to decompressBlockTHUMB58Hc
THUMB58HWords == unstuff58bits(block_part1, block_part2)

\* C22: decompressBlockTHUMB58Hc takes the distance index 2 * (the 2-bit
\* field at bits 33..32) + (1 if col0 >= col1 else 0), col0 and col1 being
\* the 12-bit packed colours at bits 57..46 and 45..34, and writes each texel
\* with the paint colour its 2-bit mask selects: clamp(color0 + d),
\* clamp(color0 - d), clamp(color1 + d), clamp(color1 - d) for masks 0..3,
\* with d = table58H[index].
C22_HPaintColours ==
    (Decoded /\ THUMB58HCalled) =>
        \E w \in {THUMB58HWords} :
            \E c0 \in {C21_Colour(w[1], 57)}, c1 \in {C21_Colour(w[1], 45)},
               d \in {C21_Distances[C22_DistanceIndex(w[1]) + 1]} :
                \A x \in 0 .. 3, y \in 0 .. 3, k \in 1 .. 3 :
                    TexelByte(x, y, k - 1)
                        = C22_Paint(C21_Mask(w[2], x, y), c0, c1, d, k)

\* an H block with col0 >= col1 (the comparison bit set), all four masks in
\* use and a texel clamped at 0
C22_Witness ==
    /\ Decoded /\ THUMB58HCalled
    /\ \E w \in {THUMB58HWords} :
           \E c0 \in {C21_Colour(w[1], 57)}, c1 \in {C21_Colour(w[1], 45)},
              i \in {C22_DistanceIndex(w[1])} :
               /\ i % 2 = 1
               /\ \A m \in 0 .. 3 :
                      \E x \in 0 .. 3, y \in 0 .. 3 : C21_Mask(w[2], x, y) = m
               /\ \E x \in 0 .. 3, y \in 0 .. 3, k \in 1 .. 3 :
                      /\ C21_Mask(w[2], x, y) = 1
                      /\ c0[k] - C21_Distances[i + 1] < 0
                      /\ TexelByte(x, y, k - 1) = 0

\* an H block with col0 < col1: the comparison bit clear
C22_WitnessLess ==
    /\ Decoded /\ THUMB58HCalled
    /\ C22_DistanceIndex(THUMB58HWords[1]) % 2 = 0

----------------------------------------------------------------------------
(* The order of the source reads, checked under SpecUnpack *)

\* S: the source bytes of one block
C23_BlockBytes == IF alphaFormat = "AF_8BIT" THEN 16 ELSE 8

\* the blocks in a row and in a column of the padded image
C23_BlocksAcross == padded_width \div 4
C23_BlocksDown == padded_height \div 4

\* the bytes read before the read number i, and by all the reads
C23_BytesBefore(i) ==
    4 * Cardinality({j \in 1 .. (i - 1) : srcReads[j][5] = 4})
    + 8 * Cardinality({j \in 1 .. (i - 1) : srcReads[j][5] = 8})
C23_BytesRead == C23_BytesBefore(Len(srcReads) + 1)

\* the position of the block of the read number i in row-major order
C23_BlockNumber(i) ==
    (srcReads[i][3] \div 4) * C23_BlocksAcross + (srcReads[i][2] \div 4)

\* the R, G and B bytes of the tile (bx, by) of the padded image are those
\* the colour decoder gives for the two big-endian words at off
C23_TileDecodedFrom(bx, by, off) ==
    \E d \in {decompressBlockETC2c(
                  WordOfBytes(srcETC[off + 1], srcETC[off + 2], srcETC[off + 3],
                              srcETC[off + 4]),
                  WordOfBytes(srcETC[off + 5], srcETC[off + 6], srcETC[off + 7],
                              srcETC[off + 8]),
                  heap[1].bytes, padded_width, 4 * bx, 4 * by, dstChannels).img} :
        \A x \in 0 .. 3, y \in 0 .. 3, k \in 0 .. 2 :
            \E at \in {dstChannels * ((4 * by + y) * padded_width + 4 * bx + x) + k} :
                heap[1].bytes[at] = d[at]

\* C23: KTXUnpackETC reads the source strictly in sequence and visits the
\* blocks of the padded image in row-major order: every read starts where the
\* one before ended, the block at column bx and row by is read at offset
\* (by * (paddedWidth / 4) + bx) * S, its alpha sub-block first (S = 16, RGBA)
\* and then the two big-endian words of its colour block, S = 8 without
\* alpha, the tile holds the colours decoded from those words, and the reads
\* take (paddedWidth / 4) * (paddedHeight / 4) * S bytes in all.
C23_SequentialReads ==
    BlocksDecoded =>
        /\ \A i \in 1 .. Len(srcReads) : srcReads[i][4] = C23_BytesBefore(i)
        /\ \A i \in 1 .. Len(srcReads), j \in 1 .. Len(srcReads) :
               i < j => C23_BlockNumber(i) <= C23_BlockNumber(j)
        /\ \A bx \in 0 .. (C23_BlocksAcross - 1), by \in 0 .. (C23_BlocksDown - 1) :
               \E base \in {(by * C23_BlocksAcross + bx) * C23_BlockBytes} :
                   /\ (alphaFormat = "AF_8BIT") <=>
                          (\E i \in 1 .. Len(srcReads) :
                               srcReads[i] = <<"alpha", 4 * bx, 4 * by, base, 8>>)
                   /\ \E i \in 1 .. Len(srcReads) :
                          /\ srcReads[i] = <<"block_part1", 4 * bx, 4 * by,
                                             base + C23_BlockBytes - 8, 4>>
                          /\ srcReads[i + 1] = <<"block_part2", 4 * bx, 4 * by,
                                                 base + C23_BlockBytes - 4, 4>>
                   /\ C23_TileDecodedFrom(bx, by, base + C23_BlockBytes - 8)
                   /\ Cardinality({i \in 1 .. Len(srcReads) :
                                      /\ srcReads[i][2] = 4 * bx
                                      /\ srcReads[i][3] = 4 * by})
                          = C23_BlockBytes \div 8 + 1
        /\ C23_BytesRead = C23_BlocksAcross * C23_BlocksDown * C23_BlockBytes
        /\ C23_BytesRead = Len(srcETC)

\* an RGBA image of 2 x 2 blocks decoded: the block of column 1 and row 1 is
\* read at offset 48, alpha first, and 64 bytes are read in all
C23_Witness ==
    /\ BlocksDecoded /\ alphaFormat = "AF_8BIT"
    /\ C23_BlocksAcross = 2 /\ C23_BlocksDown = 2
    /\ Len(srcReads) = 12
    /\ srcReads[10] = <<"alpha", 4, 4, 48, 8>>
    /\ srcReads[11] = <<"block_part1", 4, 4, 56, 4>>
    /\ srcReads[4] = <<"alpha", 4, 0, 16, 8>>
    /\ C23_BytesRead = 64

\* an RGB image of 2 x 1 blocks: 8 bytes per block
C23_WitnessRGB ==
    /\ BlocksDecoded /\ alphaFormat = "AF_NONE"
    /\ C23_BlocksAcross = 2 /\ C23_BlocksDown = 1
    /\ srcReads = << <<"block_part1", 0, 0, 0, 4>>, <<"block_part2", 0, 0, 4, 4>>,
                     <<"block_part1", 4, 0, 8, 4>>, <<"block_part2", 4, 0, 12, 4>> >>

----------------------------------------------------------------------------
(* The file cursor over the mip levels, checked under SpecLoad *)

\* the declared length of level j: the one its size prefix gave
C24_SizeOf(j) ==
    ftrace[CHOOSE i \in 1 .. Len(ftrace) :
               ftrace[i].op = "fread_size" /\ ftrace[i].level = j].size

\* p + n for a position p and a 32-bit length n, both <<high, low>>
C24_Plus(p, n) ==
    LET low == p[2] + n[2]
    IN  IF low >= 2^16 THEN <<p[1] + n[1] + 1, low - 2^16>>
        ELSE <<p[1] + n[1], low>>

RECURSIVE C24_PrefixOffset(_)
\* 64 + the sum over j < i of (4 + size_j)
C24_PrefixOffset(i) ==
    IF i = 0 THEN <<0, 64>>
    ELSE C24_Plus(C24_Plus(C24_PrefixOffset(i - 1), <<0, 4>>), C24_SizeOf(i - 1))

\* C24: LoadKTX consumes the levels in declared order and a skipped level
\* moves the file cursor as a materialized one does: the size prefix of
\* level i is read at offset 64 + sum over j < i of (4 + size_j), whatever
\* the base level; the payload of level i is read or skipped right after its
\* size prefix, 4 bytes further, and before the prefix of level i + 1.
C24_CursorOverLevels ==
    \A i \in 1 .. Len(ftrace) :
        /\ ftrace[i].op = "fread_size" =>
               /\ ftrace[i].at = C24_PrefixOffset(ftrace[i].level)
               /\ ftrace[i].level = Cardinality({j \in 1 .. (i - 1) :
                                                    ftrace[j].op = "fread_size"})
               /\ i > 1 => /\ ftrace[i - 1].op \in {"fread_payload", "fseek"}
                           /\ ftrace[i - 1].level = ftrace[i].level - 1
        /\ ftrace[i].op \in {"fread_payload", "fseek"} =>
               /\ i > 1
               /\ ftrace[i - 1].op = "fread_size"
               /\ ftrace[i - 1].level = ftrace[i].level
               /\ ftrace[i].at = C24_Plus(C24_PrefixOffset(ftrace[i].level), <<0, 4>>)
               /\ (ftrace[i].op = "fseek") <=> (ftrace[i].level < base_level)

\* a load that skipped levels 0 and 1, of 8 and 2^32 - 4 bytes, and read the
\* prefix of level 2 at 64 + 12 + 2^32
C24_Witness ==
    /\ pc = "returned"
    /\ base_level = 2
    /\ Len(ftrace) = 6
    /\ ftrace[1] = [op |-> "fread_size", level |-> 0, at |-> <<0, 64>>,
                    size |-> <<0, 8>>]
    /\ ftrace[2].op = "fseek"
    /\ ftrace[3] = [op |-> "fread_size", level |-> 1, at |-> <<0, 76>>,
                    size |-> <<65535, 65532>>]
    /\ ftrace[4].op = "fseek"
    /\ ftrace[5].op = "fread_size" /\ ftrace[5].at = <<65536, 76>>
    /\ ftrace[6].op = "fread_payload" /\ ftrace[6].at = <<65536, 80>>

\* the same two lengths with both levels materialized: the prefix of level 2
\* is read at the same offset
C24_WitnessMaterialized ==
    /\ base_level = 0
    /\ Len(ftrace) >= 5
    /\ ftrace[2].op = "fread_payload" /\ ftrace[2].size = <<0, 8>>
    /\ ftrace[4].op = "fread_payload" /\ ftrace[4].size = <<65535, 65532>>
    /\ ftrace[5].op = "fread_size" /\ ftrace[5].at = <<65536, 76>>

----------------------------------------------------------------------------
(* The T converter, checked under SpecBlock *)

\* bit i (32 .. 63) of the block whose high word is w1
C25_HighBit(w1, i) == C21_WordBit(w1, i - 32)

\* the high word w1 with its bit i (32 .. 63) inverted when c holds
C25_FlipIf(w1, i, c) ==
    IF ~c THEN w1
    ELSE IF i >= 48
    THEN <<IF C25_HighBit(w1, i) = 1 THEN w1[1] - 2^(i - 48) ELSE w1[1] + 2^(i - 48),
           w1[2]>>
    ELSE <<w1[1],
           IF C25_HighBit(w1, i) = 1 THEN w1[2] - 2^(i - 32) ELSE w1[2] + 2^(i - 32)>>

\* the bits the T layout does not use: 63, 62, 61, 58 and the diff bit 33
C25_UnusedBits == {63, 62, 61, 58, 33}

\* w1 with the bits of the set m inverted
C25_Flipped(w1, m) ==
    C25_FlipIf(C25_FlipIf(C25_FlipIf(C25_FlipIf(C25_FlipIf(w1, 63, 63 \in m),
        62, 62 \in m), 61, 61 \in m), 58, 58 \in m), 33, 33 \in m)

\* C25: unstuff59bits only moves bits: in its output the bits 63..59 are 0,
\* the bits 58..57 are the input bits 60..59, the bits 56..33 are the input
\* bits 57..34, bit 32 is the input bit 32 and the low word is the input low
\* word; the output is the same whatever the input bits 63..61, 58 and 33
\* are.  A T block is decoded from exactly these words.
C25_PositionalRemap ==
    \E w \in {unstuff59bits(block_part1, block_part2)} :
        /\ \A i \in 59 .. 63 : C25_HighBit(w[1], i) = 0
        /\ C25_HighBit(w[1], 58) = C25_HighBit(block_part1, 60)
        /\ C25_HighBit(w[1], 57) = C25_HighBit(block_part1, 59)
        /\ \A i \in 33 .. 56 : C25_HighBit(w[1], i) = C25_HighBit(block_part1, i + 1)
        /\ C25_HighBit(w[1], 32) = C25_HighBit(block_part1, 32)
        /\ w[1][1] \in 0 .. (2^16 - 1) /\ w[1][2] \in 0 .. (2^16 - 1)
        /\ w[2] = block_part2
        /\ \A m \in SUBSET C25_UnusedBits :
               unstuff59bits(C25_Flipped(block_part1, m), block_part2) = w
        /\ (Decoded /\ THUMB59TCalled) =>
               img = decompressBlockTHUMB59Tc(w[1], w[2],
                         FreshImg(BlockImgWidth, BlockImgHeight, channels),
                         BlockImgWidth, startx, starty, channels)

\* a T block decoded, with input bits 63..61 and 58 set (red byte 251 is
\* 11111011: bits 63..59 and 57, 56), so that the cleared and dropped bits
\* are bits that were set, and R0 = input bits 60, 59, 57, 56 = 15
C25_Witness ==
    /\ Decoded /\ THUMB59TCalled
    /\ C25_HighBit(block_part1, 63) = 1 /\ C25_HighBit(block_part1, 61) = 1
    /\ C25_HighBit(block_part1, 33) = 1
    /\ C25_HighBit(unstuff59bits(block_part1, block_part2)[1], 63) = 0
    /\ C21_Nibble(unstuff59bits(block_part1, block_part2)[1], 58) = 15

\* a T block with input bit 58 set and bits 60, 59 clear (red byte 7)
C25_WitnessBit58 ==
    /\ Decoded /\ THUMB59TCalled
    /\ C25_HighBit(block_part1, 58) = 1
    /\ C25_HighBit(block_part1, 60) = 0
    /\ C21_Nibble(unstuff59bits(block_part1, block_part2)[1], 58) = 3

----------------------------------------------------------------------------
(* The index planes of decompressBlockDiffFlipC, checked under SpecBlock *)

DiffFlipCalled == calls = <<"decompressBlockDiffFlipC">>

\* the bit of texel (x, y) in the MSB plane (bits 31..16 of block_part2) and
\* in the LSB plane (bits 15..0)
C26_MSBPlaneBit(x, y) == C21_WordBit(block_part2, 16 + 4 * x + y)
C26_LSBPlaneBit(x, y) == C21_WordBit(block_part2, 4 * x + y)

\* the sub-block of texel (x, y) under flip bit flip
C26_SubBlock(flip, x, y) == IF (IF flip = 0 THEN x < 2 ELSE y < 2) THEN 1 ELSE 2

\* the byte of channel k of a texel of sub-block s with MSB bit m and LSB
\* bit l
C26_Byte(s, m, l, k) ==
    C2_Clamp(BaseOf(s, k) + compressParams[TableOf(s) + 1][unscramble[2 * m + l + 1] + 1])

\* how often the loops stored texel (x, y) of the tile
C26_TimesStored(x, y) ==
    Cardinality({i \in 1 .. Len(stores) : stores[i] = <<startx + x, starty + y>>})

\* C26: in every block decoded by decompressBlockDiffFlipC, for flip = 0 and
\* flip = 1 and for diff = 0 and diff = 1, the index of texel (x,y) is read
\* from bit 4x+y of the MSB plane and bit 4x+y of the LSB plane; the flip bit
\* only selects the sub-block (and so the base colour and table) of the
\* texel; and every texel of the tile is written exactly once.
C26_IndexBitPosition ==
    DiffFlipCalled =>
        /\ \A x, y \in 0 .. 3 : \A k \in 0 .. 2 :
            TexelByte(x, y, k) =
                C26_Byte(C26_SubBlock(FlipBitOf, x, y), C26_MSBPlaneBit(x, y),
                         C26_LSBPlaneBit(x, y), k)
        /\ Len(stores) = 16
        /\ \A x, y \in 0 .. 3 : C26_TimesStored(x, y) = 1

\* a flipped individual block whose texel (3, 0), of the first sub-block, has
\* index bits that differ from those of texel (0, 3), of the second
C26_Witness ==
    /\ DiffFlipCalled
    /\ FlipBitOf = 1
    /\ DiffBitOf = 0
    /\ C26_MSBPlaneBit(3, 0) # C26_MSBPlaneBit(0, 3)
    /\ C26_LSBPlaneBit(3, 0) # C26_LSBPlaneBit(0, 3)
    /\ TexelByte(3, 0, 0) # TexelByte(0, 3, 0)
    /\ C26_TimesStored(3, 0) = 1

\* an unflipped differential block has been decoded
C26_WitnessUnflipped ==
    /\ DiffFlipCalled
    /\ FlipBitOf = 0
    /\ DiffBitOf = 1
    /\ \E x, y \in 0 .. 3 : C26_MSBPlaneBit(x, y) # C26_LSBPlaneBit(x, y)
    /\ C26_TimesStored(2, 0) = 1

----------------------------------------------------------------------------
(* The bytes of an RGBA8 texel, checked under SpecUnpack *)

\* byte k of texel (x, y) of block (bx, by) of an image of 4-byte texels
C27_ByteOf(bytes, bx, by, x, y, k) ==
    bytes[((4 * bx + x) + (4 * by + y) * padded_width) * 4 + k]

\* a buffer of the size of the padded image that nothing has written
C27_Blank == FreshImg(padded_width, padded_height, 4)

\* what decompressBlockAlphaC leaves in a blank buffer for block (bx, by)
C27_AlphaDecode(bx, by) ==
    decompressBlockAlphaC(AlphaDataOf(bx, by), C27_Blank, 3, padded_width,
                          4 * bx, 4 * by, 4, alphaTable)

\* what decompressBlockETC2c leaves in a blank buffer for block (bx, by),
\* whose two words follow the 8 bytes of its alpha sub-block
C27_ColourDecode(bx, by) ==
    LET off == 16 * (by * (padded_width \div 4) + bx) + 8
    IN  decompressBlockETC2c(
            WordOfBytes(srcETC[off + 1], srcETC[off + 2], srcETC[off + 3],
                        srcETC[off + 4]),
            WordOfBytes(srcETC[off + 5], srcETC[off + 6], srcETC[off + 7],
                        srcETC[off + 8]),
            C27_Blank, padded_width, 4 * bx, 4 * by, 4).img

\* C27: in KTXUnpackETC with the RGBA8 format the colour decode of a block
\* leaves byte 3 of every texel as it was and the alpha decode leaves bytes
\* 0..2 as they were: once the whole image is decoded, the alpha byte of every
\* texel of the padded buffer is the value decompressBlockAlphaC produces from
\* the alpha sub-block of the texel's tile, the bytes 0..2 are those
\* decompressBlockETC2c produces from the tile's colour words, and every byte
\* of the padded buffer has been written.
C27_ColourAndAlphaDisjoint ==
    (BlocksDecoded /\ alphaFormat = "AF_8BIT") =>
        /\ \A bx \in 0 .. ((padded_width \div 4) - 1),
              by \in 0 .. ((padded_height \div 4) - 1) :
            \E a \in {C27_AlphaDecode(bx, by)}, c \in {C27_ColourDecode(bx, by)} :
                \A x \in 0 .. 3, y \in 0 .. 3 :
                    /\ C27_ByteOf(heap[dstImage].bytes, bx, by, x, y, 3) =
                           C27_ByteOf(a, bx, by, x, y, 3)
                    /\ C27_ByteOf(c, bx, by, x, y, 3) = Unwritten
                    /\ \A k \in 0 .. 2 :
                        /\ C27_ByteOf(heap[dstImage].bytes, bx, by, x, y, k) =
                               C27_ByteOf(c, bx, by, x, y, k)
                        /\ C27_ByteOf(a, bx, by, x, y, k) = Unwritten
        /\ DOMAIN heap[dstImage].bytes = 0 .. (padded_width * padded_height * 4 - 1)
        /\ \A i \in DOMAIN heap[dstImage].bytes : heap[dstImage].bytes[i] \in 0 .. 255

\* an RGBA8 image of 2 x 2 blocks has been decoded: the last block's alpha
\* bytes are not all equal and differ from the texel's red byte somewhere
C27_Witness ==
    /\ BlocksDecoded /\ alphaFormat = "AF_8BIT"
    /\ padded_width = 8 /\ padded_height = 8
    /\ \E x, y \in 0 .. 3 :
           /\ AlphaByte(1, 1, x, y) # AlphaByte(1, 1, 0, 0)
           /\ AlphaByte(1, 1, x, y) # C27_ByteOf(heap[dstImage].bytes, 1, 1, x, y, 0)
    /\ \A i \in DOMAIN heap[dstImage].bytes : heap[dstImage].bytes[i] # Unwritten

----------------------------------------------------------------------------
(* What LoadKTX leaves in its outputs, checked under SpecLoad *)

\* LoadKTX threw before the first pass of the loop over the levels: nothing
\* but the FOpen and the fread of the header has been called
FailedBeforeLoop ==
    /\ pc = "thrown"
    /\ \A i \in 1 .. Len(io) : io[i][1] \in {"fopen", "fread_header"}

\* the caller's arrays hold what they held before the call
ArraysUntouched ==
    \A l \in Levels :
        /\ buffers[l] = PriorBuffer
        /\ widths[l] = PriorInt
        /\ heights[l] = PriorInt
        /\ formats[l] = PriorFormat
        /\ sizes[l] = PriorSize

\* C28: if LoadKTX fails before the loop over the mip levels (the file cannot
\* be opened, the header read fails, a header validation fails or the
\* internal format is unsupported), *base_level and every element of buffers,
\* widths, heights, formats and sizes are left unchanged.
C28_EarlyFailureWritesNothing ==
    FailedBeforeLoop => (base_level = PriorInt /\ ArraysUntouched)

\* a valid header with an unsupported internal format has been rejected
C28_Witness ==
    /\ FailedBeforeLoop
    /\ f = "open"
    /\ header # NoHeader
    /\ HeaderValid(header)
    /\ ClassifyFormat(header.glInternalFormat) = "throw"
    /\ base_level = PriorInt

\* the file could not be opened
C28_WitnessNoFile ==
    /\ FailedBeforeLoop
    /\ f = "none"
    /\ io = << <<"fopen", -1>> >>

\* the header could not be read
C28_WitnessShortFile ==
    /\ FailedBeforeLoop
    /\ f = "open"
    /\ header = NoHeader
    /\ io[Len(io)] = <<"fread_header", -1>>

\* a header failed a validation
C28_WitnessInvalidHeader ==
    /\ FailedBeforeLoop
    /\ header # NoHeader
    /\ ~HeaderValid(header)

\* v halved n times, rounding up each time: the least k with k * 2^n >= v
C29_Halved(v, n) == (v + 2^n - 1) \div 2^n

\* level l is one of the levels of the file
C29_InFile(l) == l < NumLevels

\* C29: after a successful LoadKTX, for every materialized level L
\* (L >= *base_level), widths[L] and heights[L] are the header's pixelWidth
\* and pixelHeight halved L times, rounding up each time, the skipped levels
\* counted, and sizes[L] is the declared byte length of level L; for every
\* skipped level only buffers[level] is written (null) and widths, heights,
\* sizes and formats of that level are left unchanged.
C29_LevelDimensions ==
    pc = "returned" =>
        \A l \in Levels :
            /\ (C29_InFile(l) /\ l >= base_level) =>
                /\ widths[l] = C29_Halved(header.pixelWidth, l)
                /\ heights[l] = C29_Halved(header.pixelHeight, l)
                /\ sizes[l] = C24_SizeOf(l)
            /\ (C29_InFile(l) /\ l < base_level) =>
                /\ buffers[l] = "null"
                /\ widths[l] = PriorInt
                /\ heights[l] = PriorInt
                /\ sizes[l] = PriorSize
                /\ formats[l] = PriorFormat

\* a 6 x 5 file of three levels loaded from level 1 on: 3 x 3 and 2 x 2, the
\* first level skipped, and the last level of 2^32 - 4 bytes
C29_Witness ==
    /\ pc = "returned"
    /\ NumLevels = 3
    /\ base_level = 1
    /\ header.pixelWidth = 6 /\ header.pixelHeight = 5
    /\ widths[1] = 3 /\ heights[1] = 3
    /\ widths[2] = 2 /\ heights[2] = 2
    /\ sizes[2] = U32(65535, 65532)
    /\ buffers[0] = "null" /\ widths[0] = PriorInt /\ sizes[0] = PriorSize

\* a 200 x 200 file of three levels loaded from level 2 on: 50 x 50
C29_WitnessTwoSkipped ==
    /\ pc = "returned"
    /\ NumLevels = 3
    /\ base_level = 2
    /\ widths[2] = 50 /\ heights[2] = 50
    /\ widths[1] = PriorInt /\ formats[1] = PriorFormat

\* line 96 and the two drops after it have run
BaseLevelComputed == pc \in {"loop", "level_body", "returned"} \/ base_level # PriorInt

C30_LowOrMedium == texture_quality \in {"kLow", "kMedium"}

\* C30: the base level computed by LoadKTX is in {0, 1, 2} and never exceeds
\* numberOfMipmapLevels: it is 0 for any quality other than Low or Medium, or
\* when min_quality >= 2, or when the file declares 0 mip levels; it is at
\* least 1 when quality is Low or Medium, min_quality < 2 and N >= 1; it is 2
\* exactly when additionally quality is Low, min_quality < 1,
\* pixelWidth > 128, pixelHeight > 128 and N >= 2.
C30_BaseLevelRange ==
    BaseLevelComputed =>
        /\ base_level \in {0, 1, 2}
        /\ base_level <= NumLevels
        /\ (~C30_LowOrMedium \/ min_quality >= 2 \/ NumLevels = 0)
            => base_level = 0
        /\ (C30_LowOrMedium /\ min_quality < 2 /\ NumLevels >= 1)
            => base_level >= 1
        /\ base_level = 2 <=>
            /\ C30_LowOrMedium /\ min_quality < 2 /\ NumLevels >= 1
            /\ texture_quality = "kLow"
            /\ min_quality < 1
            /\ header.pixelWidth > 128
            /\ header.pixelHeight > 128
            /\ NumLevels >= 2

\* low quality, no floor, a 200 x 200 file of two levels: base level 2, the
\* number of levels of the file
C30_Witness ==
    /\ BaseLevelComputed
    /\ texture_quality = "kLow"
    /\ min_quality = 0
    /\ header.pixelWidth = 200 /\ header.pixelHeight = 200
    /\ NumLevels = 2
    /\ base_level = 2

\* medium quality on a large file of three levels: base level 1
C30_WitnessMedium ==
    /\ BaseLevelComputed
    /\ texture_quality = "kMedium"
    /\ min_quality = 0
    /\ header.pixelWidth = 200 /\ header.pixelHeight = 200
    /\ NumLevels = 3
    /\ base_level = 1

\* low quality on a file that declares no level: base level 0
C30_WitnessNoLevels ==
    /\ BaseLevelComputed
    /\ texture_quality = "kLow"
    /\ min_quality = 0
    /\ NumLevels = 0
    /\ base_level = 0

====
